---- MODULE Spec2Model ----
(***************************************************************************)
(* A model of quadratic's Python formula-cell layer: the cell-value codec   *)
(* (quadratic_py/utils.py, py_code/convert_cell_value.py), the output       *)
(* shaper (process_output.py), the range fetcher and the evaluation         *)
(* session (run_python.py), the figure holder (figure_holder.py) and the    *)
(* await-inserting source transform (transform_async.py).                   *)
(*                                                                         *)
(* Text is a sequence of one-character strings.  A native Python value is   *)
(* a record [k |-> <type name>, v |-> <content>].                           *)
(***************************************************************************)
EXTENDS Integers, Sequences, FiniteSets, TLC

VARIABLES
    c_pc,       \* codec harness: "idle", "encoded", "roundtrip", "decoded", "reencoded", "converted"
    c_native,   \* the native value handed to to_quadratic_type (or obtained by decoding)
    c_wire,     \* the wire pair [p |-> payload, t |-> tag]
    c_out,      \* the outcome [raised |-> BOOLEAN, val |-> native value, wire |-> wire pair]
    c_fn,       \* which decoder acted: "to_python_type" or "convert_cell_value"
    s_pc,       \* output shaper: "idle" or "shaped"
    s_impl,     \* which process_output_value acted: "wasm" or "cloud"
    s_in,       \* the output_value handed to process_output_value
    s_res,      \* the dictionary process_output_value returned (or raised |-> TRUE)
    f_pc,       \* range fetcher: "idle", "awaiting" (host request in flight), "failed", "processed"
    f_impl,     \* whose reader acts: "kernel" / "client" / "webworker" (run_python.py), "quadratic", "cloud"
    f_call,     \* the read in progress or last finished: "getCells", "getCell", ...
    f_req,      \* its range [x0, y0, x1, y1, sheet, header]
    f_resp,     \* the host's last response [kind, cells]
    f_out,      \* what the read returned [raised, kind, val, list, header, rows]
    f_log,      \* cells_accessed: the AccessLog, a sequence of <<x, y, sheet>>
    f_before,   \* cells_accessed as it was when the last read was called
    f_reads,    \* number of reads called so far
    f_q,        \* the evaluation's q object [exists, probe, probes, cells]
    e_pc,       \* evaluation session: "ready", "running", "returned", "escaped"
    e_impl,     \* whose run_python acts: "kernel" or "client"
    e_code,     \* the snippet [lines, trailing, syntax_line]
    e_ip,       \* the line of the snippet's next statement
    e_gate,     \* the figure holder [exists, result, line] of this evaluation
    e_call,     \* the last set_result call [made, held, outcome, call_line, source_line]
    e_figs,     \* the figures the holder recorded in this evaluation, in order
    e_sout,     \* sout: the lines whose print has written to it
    e_log,      \* cells_accessed of this evaluation
    e_value,    \* output_value as eval_code_async returned it [set, v]
    e_exc,      \* the exception that ended execution or post-processing (cls = "none" if none)
    e_res,      \* the dictionary run_python returned
    e_runs,     \* how many times eval_code_async was entered for this evaluation
    e_patch,    \* the holder plotly's open_html_in_browser is bound to [bound, owner, result, line]
    e_evals,    \* how many evaluations this interpreter has started
    r_pc,       \* source rewriter: "idle", "once" (rewritten), "twice" (output rewritten again)
    r_fn,       \* which transform acts: "add_await_to_cell_calls" or "attempt_fix_await"
    r_code,     \* the snippet text handed to the transform
    r_once,     \* the transform's output
    r_twice,    \* the transform's output for r_once
    r_close,    \* what _find_matching_close_paren returned for the call of r_code (0: not found)
    t_pc,       \* code trace: "idle", "frames" (get_user_frames acted), "line" (get_return_line acted)
    t_stack,    \* inspect.stack() as get_user_frames saw it, innermost first
    t_frames,   \* what get_user_frames returned [none, frames]
    t_code,     \* the snippet text handed to get_return_line
    t_line      \* what get_return_line returned

codecVars == <<c_pc, c_native, c_wire, c_out, c_fn>>

shapeVars == <<s_pc, s_impl, s_in, s_res>>

fetchVars == <<f_pc, f_impl, f_call, f_req, f_resp, f_out, f_log, f_before, f_reads, f_q>>

evalVars == <<e_pc, e_impl, e_code, e_ip, e_gate, e_call, e_figs, e_sout, e_log, e_value, e_exc, e_res, e_runs,
             e_patch, e_evals>>

rewriteVars == <<r_pc, r_fn, r_code, r_once, r_twice, r_close>>

traceVars == <<t_pc, t_stack, t_frames, t_code, t_line>>

vars == <<codecVars, shapeVars, fetchVars, evalVars, rewriteVars, traceVars>>

notCodec == <<shapeVars, fetchVars, evalVars, rewriteVars, traceVars>>

notShape == <<codecVars, fetchVars, evalVars, rewriteVars, traceVars>>

notFetch == <<codecVars, shapeVars, evalVars, rewriteVars, traceVars>>

notEval == <<codecVars, shapeVars, fetchVars, rewriteVars, traceVars>>

notRewrite == <<codecVars, shapeVars, fetchVars, evalVars, traceVars>>

notTrace == <<codecVars, shapeVars, fetchVars, evalVars, rewriteVars>>

(***************************************************************************)
(* Native values: [k |-> type name, v |-> content].                         *)
(***************************************************************************)
PyNone == [k |-> "None", v |-> 0]
PyStr(s) == [k |-> "str", v |-> s]
PyIntV(n) == [k |-> "int", v |-> n]
PyFloatV(f) == [k |-> "float", v |-> f]
PyBool(b) == [k |-> "bool", v |-> b]
PyDate(y, mo, d) == [k |-> "date", v |-> [y |-> y, mo |-> mo, d |-> d]]
PyTime(h, mi, s) == [k |-> "time", v |-> [h |-> h, mi |-> mi, s |-> s]]
PyDateTime(y, mo, d, h, mi, s) ==
    [k |-> "datetime", v |-> [y |-> y, mo |-> mo, d |-> d, h |-> h, mi |-> mi, s |-> s]]
PyTimedelta(d, s, us) == [k |-> "timedelta", v |-> [d |-> d, s |-> s, us |-> us]]
\* every relativedelta field holds a number: the int the caller passed, or the
\* float parse_duration accumulated
PyRelativedelta(r) == [k |-> "relativedelta", v |-> r]
PyList(items) == [k |-> "list", v |-> items]

(***************************************************************************)
(* Bounds of the model.                                                     *)
(***************************************************************************)
MaxInt == 12        \* integers and float mantissas range over -MaxInt..MaxInt
MaxNumLen == 3      \* numeric-looking payloads have at most MaxNumLen characters

(***************************************************************************)
(* CellValueType (utils.py), "type_u8 as per cellvalue.rs".                 *)
(***************************************************************************)
Blank == 0
Text == 1
Number == 2
Logical == 3
Duration == 4
Error == 5
Html == 6
Image == 8
Date == 9
Time == 10
DateTime == 11

Tags == {Blank, Text, Number, Logical, Duration, Error, Html, Image, Date, Time, DateTime}

\* the tags a host may send: the enum, and Code and Import of the grid engine
InputTags == Tags \cup {7, 12}

(***************************************************************************)
(* Characters and Python's str / int / float conversions.                   *)
(***************************************************************************)
DigitChars == <<"0", "1", "2", "3", "4", "5", "6", "7", "8", "9">>

IsDigit(c) == \E i \in 1..10 : DigitChars[i] = c

DigitVal(c) == (CHOOSE i \in 1..10 : DigitChars[i] = c) - 1

IsSpace(c) == c \in {" ", "\n", "\t"}

RECURSIVE NatToStr(_)
NatToStr(n) == IF n < 10 THEN <<DigitChars[n + 1]>>
               ELSE NatToStr(n \div 10) \o <<DigitChars[(n % 10) + 1]>>

\* str(int)
IntToStr(n) == IF n < 0 THEN <<"-">> \o NatToStr(0 - n) ELSE NatToStr(n)

RECURSIVE Pad(_, _)
\* zero padding of the "%04d" / "%02d" fields of isoformat()
Pad(s, width) == IF Len(s) >= width THEN s ELSE Pad(<<"0">> \o s, width)

RECURSIVE Pow10(_)
Pow10(e) == IF e = 0 THEN 1 ELSE 10 * Pow10(e - 1)

RECURSIVE DigitsVal(_)
DigitsVal(s) == IF s = <<>> THEN 0
                ELSE 10 * DigitsVal(SubSeq(s, 1, Len(s) - 1)) + DigitVal(s[Len(s)])

AllDigits(s) == \A i \in 1..Len(s) : IsDigit(s[i])

RECURSIVE LStrip(_)
LStrip(s) == IF s # <<>> /\ IsSpace(s[1]) THEN LStrip(Tail(s)) ELSE s

RECURSIVE RStrip(_)
\* str.rstrip()
RStrip(s) == IF s # <<>> /\ IsSpace(s[Len(s)]) THEN RStrip(SubSeq(s, 1, Len(s) - 1)) ELSE s

Strip(s) == LStrip(RStrip(s))

HasSign(s) == s # <<>> /\ s[1] \in {"-", "+"}

Unsigned(s) == IF HasSign(s) THEN Tail(s) ELSE s

Signed(s, n) == IF s # <<>> /\ s[1] = "-" THEN 0 - n ELSE n

\* int(value): surrounding whitespace, one optional sign, decimal digits
PyInt(s) ==
    LET b == Unsigned(Strip(s))
    IN  IF b # <<>> /\ AllDigits(b)
        THEN [ok |-> TRUE, v |-> Signed(Strip(s), DigitsVal(b))]
        ELSE [ok |-> FALSE, v |-> 0]

\* A float is kept as the decimal it prints as: mantissa m and e fractional
\* digits (m / 10^e), without trailing fractional zeros.
RECURSIVE NormFloat(_, _)
NormFloat(m, e) == IF e > 0 /\ m % 10 = 0 THEN NormFloat(m \div 10, e - 1)
                   ELSE [m |-> m, e |-> e]

DotAt(b) == IF \E i \in 1..Len(b) : b[i] = "." THEN CHOOSE i \in 1..Len(b) : b[i] = "." ELSE 0

\* float(value): whitespace, sign, digits with at most one point and at least
\* one digit (exponents, inf and nan lie outside the payload alphabet)
PyFloat(s) ==
    LET b == Unsigned(Strip(s))
        d == DotAt(b)
        ip == IF d = 0 THEN b ELSE SubSeq(b, 1, d - 1)
        fp == IF d = 0 THEN <<>> ELSE SubSeq(b, d + 1, Len(b))
    IN  IF AllDigits(ip) /\ AllDigits(fp) /\ Len(ip) + Len(fp) > 0
        THEN [ok |-> TRUE,
              v |-> LET nf == NormFloat(DigitsVal(ip \o fp), Len(fp))
                    IN  [m |-> Signed(Strip(s), nf.m), e |-> nf.e]]
        ELSE [ok |-> FALSE, v |-> [m |-> 0, e |-> 0]]

\* str(float): repr of a short decimal, always with a fractional part
FloatToStr(f) ==
    LET a == IF f.m < 0 THEN 0 - f.m ELSE f.m
        sign == IF f.m < 0 THEN <<"-">> ELSE <<>>
    IN  IF f.e = 0 THEN sign \o NatToStr(a) \o <<".", "0">>
        ELSE sign \o NatToStr(a \div Pow10(f.e)) \o <<".">>
                  \o Pad(NatToStr(a % Pow10(f.e)), f.e)

DeltaFields == {"years", "months", "days", "hours", "minutes", "seconds", "microseconds"}

\* relativedelta()
ZeroDelta == [f \in DeltaFields |-> PyIntV(0)]

IsNum(a) == a.k \in {"bool", "int", "float"}

\* a bool, int or float as a decimal float
ToFloat(a) ==
    CASE a.k = "bool" -> [m |-> IF a.v THEN 1 ELSE 0, e |-> 0]
      [] a.k = "int" -> [m |-> a.v, e |-> 0]
      [] a.k = "float" -> a.v

NumEq(a, b) == ToFloat(a).m * Pow10(ToFloat(b).e) = ToFloat(b).m * Pow10(ToFloat(a).e)

\* Python's ==: numbers compare by value across bool, int and float; two
\* relativedeltas compare field by field with ==; every other type compares
\* equal only to a value of its own type (timedelta and relativedelta are
\* never equal to each other)
PyEq(a, b) ==
    IF IsNum(a) /\ IsNum(b) THEN NumEq(a, b)
    ELSE IF a.k = "relativedelta" /\ b.k = "relativedelta"
         THEN \A f \in DeltaFields : NumEq(a.v[f], b.v[f])
    ELSE a.k = b.k /\ a.v = b.v

\* number + float, as parse_duration's "+=" does
NumAdd(a, f) ==
    LET x == ToFloat(a)
        E == IF x.e > f.e THEN x.e ELSE f.e
    IN  PyFloatV(NormFloat(x.m * Pow10(E - x.e) + f.m * Pow10(E - f.e), E))

\* str(number)
NumToStr(a) == IF a.k = "int" THEN IntToStr(a.v) ELSE FloatToStr(a.v)

(***************************************************************************)
(* TypeCodec: utils.py.                                                     *)
(***************************************************************************)
Wire(p, t) == [p |-> p, t |-> t]

DateStr(v) == Pad(NatToStr(v.y), 4) \o <<"-">> \o Pad(NatToStr(v.mo), 2)
              \o <<"-">> \o Pad(NatToStr(v.d), 2)

TimeStr(v) == Pad(NatToStr(v.h), 2) \o <<":">> \o Pad(NatToStr(v.mi), 2)
              \o <<":">> \o Pad(NatToStr(v.s), 2)

\* value.isoformat() of a date, a time or a datetime (microsecond 0, no tzinfo)
to_iso_format(value) ==
    CASE value.k = "date" -> DateStr(value.v)
      [] value.k = "time" -> TimeStr(value.v)
      [] value.k = "datetime" -> DateStr(value.v) \o <<"T">> \o TimeStr(value.v)

\* f"{value.days}d {value.seconds}s {value.microseconds}µs"
TimedeltaStr(v) == IntToStr(v.d) \o <<"d", " ">> \o IntToStr(v.s) \o <<"s", " ">>
                   \o IntToStr(v.us) \o <<"µ", "s">>

\* f"{years}y {months}mo {days}d {hours}h {minutes}m {seconds}s {microseconds}µs"
RelativedeltaStr(r) ==
    NumToStr(r["years"]) \o <<"y", " ">> \o NumToStr(r["months"]) \o <<"m", "o", " ">>
    \o NumToStr(r["days"]) \o <<"d", " ">> \o NumToStr(r["hours"]) \o <<"h", " ">>
    \o NumToStr(r["minutes"]) \o <<"m", " ">> \o NumToStr(r["seconds"]) \o <<"s", " ">>
    \o NumToStr(r["microseconds"]) \o <<"µ", "s">>

RECURSIVE PyStrOf(_)
RECURSIVE PyRepr(_)
RECURSIVE JoinRepr(_)

\* str(value) of the types that have no wire form of their own; a list prints
\* as "[" + ", ".join(repr(item)) + "]"
PyStrOf(value) ==
    CASE value.k = "str" -> value.v
      [] value.k = "None" -> <<"N", "o", "n", "e">>
      [] value.k = "bool" -> IF value.v THEN <<"T", "r", "u", "e">>
                             ELSE <<"F", "a", "l", "s", "e">>
      [] value.k = "int" -> IntToStr(value.v)
      [] value.k = "float" -> FloatToStr(value.v)
      [] value.k = "list" -> <<"[">> \o JoinRepr(value.v) \o <<"]">>
      [] OTHER -> <<"?">>

\* repr(value): a str is quoted
PyRepr(value) == IF value.k = "str" THEN <<"'">> \o value.v \o <<"'">> ELSE PyStrOf(value)

JoinRepr(items) ==
    IF items = <<>> THEN <<>>
    ELSE IF Len(items) = 1 THEN PyRepr(items[1])
    ELSE PyRepr(items[1]) \o <<",", " ">> \o JoinRepr(Tail(items))

\* an encoder whose first try block does not return for a str: the text goes
\* through ast.literal_eval and a number literal is encoded as a Number
to_quadratic_type_LiteralEval(value) ==
    IF value.k = "None" \/ (value.k = "str" /\ value.v = <<>>) THEN Wire(<<>>, Blank)
    ELSE IF value.k = "str"
         THEN IF PyInt(value.v).ok \/ PyFloat(value.v).ok THEN Wire(value.v, Number)
              ELSE Wire(value.v, Text)
    ELSE IF value.k \in {"int", "float"} THEN Wire(NumToStr(value), Number)
    ELSE IF value.k = "bool" THEN Wire(PyStrOf(value), Logical)
    ELSE IF value.k = "datetime" THEN Wire(to_iso_format(value), DateTime)
    ELSE IF value.k = "date" THEN Wire(to_iso_format(value), Date)
    ELSE IF value.k = "time" THEN Wire(to_iso_format(value), Time)
    ELSE IF value.k = "timedelta" THEN Wire(TimedeltaStr(value.v), Duration)
    ELSE IF value.k = "relativedelta" THEN Wire(RelativedeltaStr(value.v), Duration)
    ELSE Wire(PyStrOf(value), Text)

\* Convert from python types to quadratic types.  The first try block returns
\* Blank for None and "", Text for a str; ast.literal_eval of anything that is
\* not a str raises and is swallowed.
to_quadratic_type(value) ==
    IF value.k = "None" \/ (value.k = "str" /\ value.v = <<>>) THEN Wire(<<>>, Blank)
    ELSE IF value.k = "str" THEN Wire(value.v, Text)
    ELSE IF value.k \in {"int", "float"} THEN Wire(NumToStr(value), Number)
    ELSE IF value.k = "bool" THEN Wire(PyStrOf(value), Logical)
    ELSE IF value.k = "datetime" THEN Wire(to_iso_format(value), DateTime)
    ELSE IF value.k = "date" THEN Wire(to_iso_format(value), Date)
    ELSE IF value.k = "time" THEN Wire(to_iso_format(value), Time)
    ELSE IF value.k = "timedelta" THEN Wire(TimedeltaStr(value.v), Duration)
    ELSE IF value.k = "relativedelta" THEN Wire(RelativedeltaStr(value.v), Duration)
    ELSE Wire(PyStrOf(value), Text)

\* number_type: int(value), else float(value), else the value itself
number_type(value) ==
    IF PyInt(value).ok THEN PyIntV(PyInt(value).v)
    ELSE IF PyFloat(value).ok THEN PyFloatV(PyFloat(value).v)
    ELSE PyStr(value)

UpperChars == <<"A", "B", "C", "D", "E", "F", "G", "H", "I", "J", "K", "L", "M",
                "N", "O", "P", "Q", "R", "S", "T", "U", "V", "W", "X", "Y", "Z">>

LowerChars == <<"a", "b", "c", "d", "e", "f", "g", "h", "i", "j", "k", "l", "m",
                "n", "o", "p", "q", "r", "s", "t", "u", "v", "w", "x", "y", "z">>

IsLowerAlpha(c) == \E i \in 1..26 : LowerChars[i] = c

IsUpperAlpha(c) == \E i \in 1..26 : UpperChars[i] = c

LowerChar(c) == IF IsUpperAlpha(c) THEN LowerChars[CHOOSE i \in 1..26 : UpperChars[i] = c] ELSE c

\* str.lower()
Lower(s) == [i \in 1..Len(s) |-> LowerChar(s[i])]

\* re.sub(word, repl, value, count=1, flags=re.IGNORECASE)
SubFirstIgnoreCase(s, word, repl) ==
    LET hits == {i \in 1..(Len(s) - Len(word) + 1) : Lower(SubSeq(s, i, i + Len(word) - 1)) = word}
    IN  IF hits = {} THEN s
        ELSE LET i == CHOOSE h \in hits : \A g \in hits : h <= g
             IN  SubSeq(s, 1, i - 1) \o repl \o SubSeq(s, i + Len(word), Len(s))

normalize_bool(value) ==
    SubFirstIgnoreCase(SubFirstIgnoreCase(value, <<"t", "r", "u", "e">>, <<"T", "r", "u", "e">>),
                       <<"f", "a", "l", "s", "e">>, <<"F", "a", "l", "s", "e">>)

\* ast.literal_eval of a string that holds no quotes, brackets or commas:
\* True, False, None, or a number with at most one sign; a decimal integer
\* literal has no leading zero unless it is all zeros.  Anything else raises.
LiteralEval(s) ==
    LET b == Strip(s)
        u == LStrip(Unsigned(b))
        d == DotAt(u)
        ip == IF d = 0 THEN u ELSE SubSeq(u, 1, d - 1)
        fp == IF d = 0 THEN <<>> ELSE SubSeq(u, d + 1, Len(u))
    IN  IF b = <<"T", "r", "u", "e">> THEN [ok |-> TRUE, v |-> PyBool(TRUE)]
        ELSE IF b = <<"F", "a", "l", "s", "e">> THEN [ok |-> TRUE, v |-> PyBool(FALSE)]
        ELSE IF b = <<"N", "o", "n", "e">> THEN [ok |-> TRUE, v |-> PyNone]
        ELSE IF u # <<>> /\ AllDigits(u) /\ (u[1] # "0" \/ DigitsVal(u) = 0)
             THEN [ok |-> TRUE, v |-> PyIntV(Signed(b, DigitsVal(u)))]
        ELSE IF d # 0 /\ AllDigits(ip) /\ AllDigits(fp) /\ Len(ip) + Len(fp) > 0
             THEN [ok |-> TRUE, v |-> PyFloatV([m |-> Signed(b, PyFloat(u).v.m), e |-> PyFloat(u).v.e])]
        ELSE [ok |-> FALSE, v |-> PyNone]

InNumClass(c) == IsDigit(c) \/ c \in {"-", "."}

InUnitClass(c) == IsLowerAlpha(c) \/ c = "µ"

RECURSIVE RunEnd(_, _, _)
\* the first index at or after i whose character is outside the class
RunEnd(s, i, num) ==
    IF i <= Len(s) /\ (IF num THEN InNumClass(s[i]) ELSE InUnitClass(s[i]))
    THEN RunEnd(s, i + 1, num) ELSE i

FloatTimes1000(f) == NormFloat(f.m * 1000, f.e)

FloatOver1000(f) == NormFloat(f.m, f.e + 3)

\* one "case unit:" arm of parse_duration; an unknown unit changes nothing
AddUnit(ret, unit, count) ==
    CASE unit = <<"y">> -> [ret EXCEPT !["years"] = NumAdd(@, count)]
      [] unit = <<"m", "o">> -> [ret EXCEPT !["months"] = NumAdd(@, count)]
      [] unit = <<"w">> -> [ret EXCEPT !["days"] = NumAdd(@, NormFloat(count.m * 7, count.e))]
      [] unit = <<"d">> -> [ret EXCEPT !["days"] = NumAdd(@, count)]
      [] unit = <<"h">> -> [ret EXCEPT !["hours"] = NumAdd(@, count)]
      [] unit = <<"m">> -> [ret EXCEPT !["minutes"] = NumAdd(@, count)]
      [] unit = <<"s">> -> [ret EXCEPT !["seconds"] = NumAdd(@, count)]
      [] unit = <<"m", "s">> -> [ret EXCEPT !["microseconds"] = NumAdd(@, FloatTimes1000(count))]
      [] unit = <<"µ", "s">> -> [ret EXCEPT !["microseconds"] = NumAdd(@, count)]
      [] unit = <<"n", "s">> -> [ret EXCEPT !["microseconds"] = NumAdd(@, FloatOver1000(count))]
      [] unit = <<"p", "s">> ->
            [ret EXCEPT !["microseconds"] = NumAdd(@, FloatOver1000(FloatOver1000(count)))]
      [] unit = <<"f", "s">> ->
            [ret EXCEPT !["microseconds"] =
                NumAdd(@, FloatOver1000(FloatOver1000(FloatOver1000(count))))]
      [] unit = <<"a", "s">> ->
            [ret EXCEPT !["microseconds"] =
                NumAdd(@, FloatOver1000(FloatOver1000(FloatOver1000(FloatOver1000(count)))))]
      [] OTHER -> ret

RECURSIVE ScanDuration(_, _, _)
\* re.compile(r'([-\d\.]+)([a-zµ]+)').finditer(s) from index i on, with the
\* loop body applied to each match; float(m.group(1)) may raise
ScanDuration(s, i, ret) ==
    IF i > Len(s) THEN [ok |-> TRUE, v |-> ret]
    ELSE IF ~InNumClass(s[i]) THEN ScanDuration(s, i + 1, ret)
    ELSE LET j == RunEnd(s, i, TRUE)
             k == RunEnd(s, j, FALSE)
             count == PyFloat(SubSeq(s, i, j - 1))
         IN  IF k = j THEN ScanDuration(s, j, ret)
             ELSE IF ~count.ok THEN [ok |-> FALSE, v |-> ret]
             ELSE ScanDuration(s, k, AddUnit(ret, SubSeq(s, j, k - 1), count.v))

parse_duration(value) ==
    LET r == ScanDuration(Lower(value), 1, ZeroDelta)
    IN  [ok |-> r.ok, v |-> PyRelativedelta(r.v)]

IsLeap(y) == (y % 4 = 0 /\ y % 100 # 0) \/ y % 400 = 0

DaysInMonth(y, mo) ==
    IF mo = 2 THEN (IF IsLeap(y) THEN 29 ELSE 28)
    ELSE IF mo \in {4, 6, 9, 11} THEN 30 ELSE 31

\* the "HH", "HH:MM" or "HH:MM:SS" part of an ISO string
IsoTime(t) ==
    LET okShape == /\ Len(t) \in {2, 5, 8}
                   /\ \A i \in 1..Len(t) : IF i \in {3, 6} THEN t[i] = ":" ELSE IsDigit(t[i])
        h == DigitsVal(SubSeq(t, 1, 2))
        mi == IF Len(t) >= 5 THEN DigitsVal(SubSeq(t, 4, 5)) ELSE 0
        sec == IF Len(t) >= 8 THEN DigitsVal(SubSeq(t, 7, 8)) ELSE 0
    IN  IF okShape /\ h <= 23 /\ mi <= 59 /\ sec <= 59
        THEN [ok |-> TRUE, h |-> h, mi |-> mi, s |-> sec]
        ELSE [ok |-> FALSE, h |-> 0, mi |-> 0, s |-> 0]

\* datetime.fromisoformat(value), extended format: "YYYY-MM-DD", optionally
\* followed by one separator character and a time.  A string without the
\* date part raises ValueError.
FromIso(s) ==
    LET okDate == /\ Len(s) >= 10
                  /\ \A i \in 1..10 : IF i \in {5, 8} THEN s[i] = "-" ELSE IsDigit(s[i])
        y == DigitsVal(SubSeq(s, 1, 4))
        mo == DigitsVal(SubSeq(s, 6, 7))
        d == DigitsVal(SubSeq(s, 9, 10))
        t == IF Len(s) > 11 THEN IsoTime(SubSeq(s, 12, Len(s)))
             ELSE [ok |-> Len(s) = 10, h |-> 0, mi |-> 0, s |-> 0]
    IN  IF okDate /\ y >= 1 /\ mo \in 1..12 /\ d \in 1..DaysInMonth(y, mo) /\ t.ok
        THEN [ok |-> TRUE, v |-> PyDateTime(y, mo, d, t.h, t.mi, t.s)]
        ELSE [ok |-> FALSE, v |-> PyNone]

\* datetime.date() and datetime.time()
DateOf(dt) == PyDate(dt.v.y, dt.v.mo, dt.v.d)

TimeOf(dt) == PyTime(dt.v.h, dt.v.mi, dt.v.s)

\* Convert from quadratic types to python types; any exception returns value
to_python_type(value, type_u8) ==
    CASE type_u8 = Blank -> PyNone
      [] type_u8 = Text -> PyStr(value)
      [] type_u8 = Number -> number_type(value)
      [] type_u8 = Logical ->
            IF LiteralEval(normalize_bool(value)).ok
            THEN LiteralEval(normalize_bool(value)).v ELSE PyStr(value)
      [] type_u8 = Duration ->
            IF parse_duration(value).ok THEN parse_duration(value).v ELSE PyStr(value)
      [] type_u8 = Date -> IF FromIso(value).ok THEN DateOf(FromIso(value).v) ELSE PyStr(value)
      [] type_u8 = Time -> IF FromIso(value).ok THEN TimeOf(FromIso(value).v) ELSE PyStr(value)
      [] type_u8 = DateTime -> IF FromIso(value).ok THEN FromIso(value).v ELSE PyStr(value)
      [] OTHER -> PyStr(value)

Returned(v) == [raised |-> FALSE, val |-> v]

Raised == [raised |-> TRUE, val |-> PyNone]

\* convert_cell_value (convert_cell_value.py): the same decoding without a
\* try block, so a failing parse_duration or fromisoformat propagates
convert_cell_value(value, type_u8) ==
    IF type_u8 = 0 THEN Returned(PyNone)
    ELSE IF type_u8 = 1 THEN Returned(PyStr(value))
    ELSE IF type_u8 = 2 THEN Returned(number_type(value))
    ELSE IF type_u8 = 3 THEN Returned(PyBool(Lower(value) = <<"t", "r", "u", "e">>))
    ELSE IF type_u8 = 4
         THEN (IF parse_duration(value).ok THEN Returned(parse_duration(value).v) ELSE Raised)
    ELSE IF type_u8 = 9
         THEN (IF FromIso(value).ok THEN Returned(DateOf(FromIso(value).v)) ELSE Raised)
    ELSE IF type_u8 = 10
         THEN (IF FromIso(value).ok THEN Returned(TimeOf(FromIso(value).v)) ELSE Raised)
    ELSE IF type_u8 = 11
         THEN (IF FromIso(value).ok THEN Returned(FromIso(value).v) ELSE Raised)
    ELSE Returned(PyStr(value))

(***************************************************************************)
(* The values and wire pairs the codec is exercised on.                     *)
(***************************************************************************)
SeqsUpTo(A, n) == UNION {[1..k -> A] : k \in 0..n}

NumAlphabet == {"-", ".", "0", "1", "4", "2", " "}

NumPayloads == SeqsUpTo(NumAlphabet, MaxNumLen)

WordPayloads == {<<"T", "r", "u", "e">>, <<"F", "a", "l", "s", "e">>, <<"t", "r", "u", "e">>,
                 <<"f", "a", "l", "s", "e">>, <<"T", "R", "U", "E">>, <<"N", "o", "n", "e">>,
                 <<"y", "e", "s">>, <<"a", "b", "c">>, <<"t", "r", "u", "e", "r">>}

SampleDates == {PyDate(y, mo, d) : y \in {2012, 2024}, mo \in {1, 2, 12}, d \in {1, 21, 29}}

SampleTimes == {PyTime(h, mi, s) : h \in {0, 3, 23}, mi \in {0, 30}, s \in {0, 59}}

SampleDateTimes == {PyDateTime(2012, mo, d, h, mi, 0) :
                        mo \in {11, 12}, d \in {10, 21}, h \in {0, 3}, mi \in {0, 30}}

SampleTimedeltas == {PyTimedelta(d, s, us) : d \in {-1, 0, 5}, s \in {0, 3600}, us \in {0, 7}}

SampleRelativedeltas ==
    {PyRelativedelta([ZeroDelta EXCEPT !["years"] = PyIntV(y), !["months"] = PyIntV(mo),
                                       !["days"] = PyIntV(d), !["seconds"] = PyIntV(s)]) :
        y \in {0, 1}, mo \in {0, 2}, d \in {-1, 0, 3}, s \in {0, 30}}

SampleFloats == {PyFloatV(NormFloat(m, e)) : m \in (0 - MaxInt)..MaxInt, e \in {0, 1}}

\* the native values, one family per Python type
NativeFamilies ==
    << {PyNone}, {PyBool(TRUE), PyBool(FALSE)},
       {PyStr(s) : s \in NumPayloads \cup WordPayloads},
       {PyIntV(n) : n \in (0 - MaxInt)..MaxInt},
       SampleFloats, SampleDates, SampleTimes, SampleDateTimes,
       SampleTimedeltas, SampleRelativedeltas >>

DropLast(s) == SubSeq(s, 1, Len(s) - 1)

IsoPayloads ==
    LET good == {to_iso_format(v) : v \in SampleDates \cup SampleTimes \cup SampleDateTimes}
    IN  good \cup {DropLast(s) : s \in good}
             \cup {<<"2", "0", "1", "2", "-", "1", "3", "-", "0", "1">>,
                   <<"2", "0", "2", "3", "-", "0", "2", "-", "2", "9">>}

DurationPayloads ==
    {TimedeltaStr(v.v) : v \in SampleTimedeltas}
    \cup {RelativedeltaStr(v.v) : v \in SampleRelativedeltas}
    \cup {<<"1", "d">>, <<"1", ".", "5", "h">>, <<"2", "w">>, <<"3", "m", "s">>,
          <<"1", "m", "o", " ", "3", "m">>, <<"1", "D", " ", "2", "d">>, <<"5", "x">>,
          <<"-", "d">>, <<"1", ".", "2", ".", "3", "s">>, <<"4", "n", "s">>}

Payloads == NumPayloads \cup WordPayloads \cup IsoPayloads \cup DurationPayloads

(***************************************************************************)
(* The codec harness: a value is encoded and decoded back, or a wire pair   *)
(* is decoded (by either decoder) and encoded again.                        *)
(***************************************************************************)
NoWire == Wire(<<>>, Blank)

InitCodec ==
    /\ c_pc = "idle"
    /\ c_native = PyNone
    /\ c_wire = NoWire
    /\ c_out = [raised |-> FALSE, val |-> PyNone, wire |-> NoWire]
    /\ c_fn = "none"

\* to_quadratic_type(v)
Encode(v) ==
    /\ c_pc' = "encoded"
    /\ c_native' = v
    /\ c_wire' = to_quadratic_type(v)
    /\ UNCHANGED <<c_out, c_fn>>
    /\ UNCHANGED notCodec

\* to_python_type(*to_quadratic_type(v))
DecodeEncoded ==
    /\ c_pc = "encoded"
    /\ c_pc' = "roundtrip"
    /\ c_out' = [c_out EXCEPT !.val = to_python_type(c_wire.p, c_wire.t)]
    /\ c_fn' = "to_python_type"
    /\ UNCHANGED <<c_native, c_wire>>
    /\ UNCHANGED notCodec

\* to_python_type(p, t)
Decode(p, t) ==
    LET r == to_python_type(p, t)
    IN  /\ c_pc' = "decoded"
        /\ c_wire' = Wire(p, t)
        /\ c_native' = r
        /\ c_out' = [c_out EXCEPT !.val = r]
        /\ c_fn' = "to_python_type"
        /\ UNCHANGED notCodec

\* to_quadratic_type(to_python_type(p, t))
EncodeDecoded ==
    /\ c_pc = "decoded"
    /\ c_pc' = "reencoded"
    /\ c_out' = [c_out EXCEPT !.wire = to_quadratic_type(c_native)]
    /\ UNCHANGED <<c_native, c_wire, c_fn>>
    /\ UNCHANGED notCodec

\* convert_cell_value(p, t)
ConvertCell(p, t) ==
    LET r == convert_cell_value(p, t)
    IN  /\ c_pc' = "converted"
        /\ c_wire' = Wire(p, t)
        /\ c_out' = [raised |-> r.raised, val |-> r.val, wire |-> NoWire]
        /\ c_fn' = "convert_cell_value"
        /\ UNCHANGED c_native
        /\ UNCHANGED notCodec

EncodeAny ==
    /\ c_pc = "idle"
    /\ \E i \in 1..Len(NativeFamilies) : \E v \in NativeFamilies[i] : Encode(v)

DecodeAny ==
    /\ c_pc = "idle"
    /\ \E p \in Payloads, t \in InputTags : Decode(p, t)

ConvertAny ==
    /\ c_pc = "idle"
    /\ \E p \in Payloads, t \in InputTags : ConvertCell(p, t)

NextCodec == EncodeAny \/ DecodeEncoded \/ DecodeAny \/ EncodeDecoded \/ ConvertAny

(***************************************************************************)
(* Claims about the codec (checked under SpecCodec).                        *)
(***************************************************************************)
SameValue(a, b) == a.k = b.k /\ a.v = b.v

\* The values C1 is read for: None, non-empty text, int, float, bool, date,
\* time, datetime and relativedelta.  The empty text (which shares the wire
\* form Blank with None) and timedelta (which is decoded as a relativedelta)
\* are left out, so that only the codec's own pairs of inverse branches count.
C1_Representable(v) ==
    /\ v.k \in {"None", "str", "int", "float", "bool", "date", "time", "datetime",
                "relativedelta"}
    /\ ~(v.k = "str" /\ v.v = <<>>)

\* C1: encode-then-decode round trip: for every representable native value v,
\* to_python_type(*to_quadratic_type(v)) == v.
C1_RoundTripEncodeDecode ==
    (c_pc = "roundtrip" /\ C1_Representable(c_native)) => PyEq(c_out.val, c_native)

\* the wire pairs the encoder itself emits: the canonical form of every tag
CanonicalWires ==
    UNION {{to_quadratic_type(v) : v \in NativeFamilies[i]} : i \in 1..Len(NativeFamilies)}

\* C2: decode-then-encode round trip: for every valid wire pair (payload, tag)
\* with a tag other than Duration, to_quadratic_type(to_python_type(payload, tag))
\* is (payload, tag) again.  "Valid" is read as narrowly as possible: a pair in
\* the encoder's own canonical form.
C2_RoundTripDecodeEncode ==
    (c_pc = "reencoded" /\ c_wire \in CanonicalWires /\ c_wire.t # Duration)
        => c_out.wire = c_wire

\* the payload cannot be parsed for its tag
C3_Unparseable(w) ==
    CASE w.t = Number -> ~PyInt(w.p).ok /\ ~PyFloat(w.p).ok
      [] w.t = Logical -> Lower(Strip(w.p)) \notin {<<"t", "r", "u", "e">>, <<"f", "a", "l", "s", "e">>}
      [] w.t \in {Date, Time, DateTime} -> ~FromIso(w.p).ok
      [] w.t = Duration -> ~parse_duration(w.p).ok
      [] OTHER -> FALSE

\* C3: decoding is total: for every payload and tag neither decoder raises, and
\* a payload that cannot be parsed for its tag comes back unchanged, as text.
C3_DecodeTotal ==
    c_pc \in {"decoded", "converted"} =>
        /\ ~c_out.raised
        /\ C3_Unparseable(c_wire) => SameValue(c_out.val, PyStr(c_wire.p))

\* C16: strings are never reinterpreted on encode: every non-empty string,
\* also one that reads as a number or a boolean, is encoded as (s, Text),
\* and only None and the empty string are encoded as Blank.
C16_StringsStayText ==
    c_pc \in {"encoded", "roundtrip"} =>
        /\ (c_native.k = "str" /\ c_native.v # <<>>) => c_wire = Wire(c_native.v, Text)
        /\ c_wire.t = Blank <=>
               (c_native.k = "None" \/ (c_native.k = "str" /\ c_native.v = <<>>))

\* the string "-1" was encoded
C16_Witness ==
    /\ c_pc = "encoded"
    /\ c_native = PyStr(<<"-", "1">>)
    /\ c_wire = Wire(<<"-", "1">>, Text)

(***************************************************************************)
(* Output shaper: process_output.py of the wasm kernel and of the cloud     *)
(* worker.  A typed cell is [p |-> payload, t |-> integer tag, ts |-> ""]   *)
(* when its tag is the enum's integer and [p |-> payload, t |-> -1,         *)
(* ts |-> name] when its tag is a string.  typed_array_output is            *)
(* [some, is_2d, rows]: for a 2D array rows[r] is the r-th row; for a flat  *)
(* array rows[r] holds the single cell of the r-th element.                 *)
(***************************************************************************)
MaxRows == 3        \* a list output has at most MaxRows elements
MaxCols == 3        \* a row has at most MaxCols cells

TypedCell(w) == [p |-> w.p, t |-> w.t, ts |-> ""]

NamedCell(p, name) == [p |-> p, t |-> -1, ts |-> name]

\* cloud to_quadratic_type: as utils.to_quadratic_type, but it knows no
\* relativedelta and spells the microsecond unit of a timedelta "Âµs"
to_quadratic_type_cloud(value) ==
    IF value.k = "timedelta"
    THEN Wire(IntToStr(value.v.d) \o <<"d", " ">> \o IntToStr(value.v.s) \o <<"s", " ">>
              \o IntToStr(value.v.us) \o <<"Â", "µ", "s">>, Duration)
    ELSE IF value.k = "relativedelta" THEN Wire(PyStrOf(value), Text)
    ELSE to_quadratic_type(value)

EncodeFor(impl, value) ==
    IF impl = "cloud" THEN to_quadratic_type_cloud(value) ELSE to_quadratic_type(value)

\* an emptiness test that does not look into nested lists
isListEmpty_Flat(inList) == inList.k = "list" /\ Len(inList.v) = 0

RECURSIVE isListEmpty(_)

isListEmpty(inList) ==
    IF inList.k = "list" THEN \A i \in 1..Len(inList.v) : isListEmpty(inList.v[i])
    ELSE FALSE

\* len(row) is defined for a list and for a str, and raises TypeError otherwise
HasLen(row) == row.k \in {"list", "str"}

PyLen(row) == Len(row.v)

\* row[col]: an item of a list, a one-character str of a str
PyItem(row, col) == IF row.k = "list" THEN row.v[col] ELSE PyStr(<<row.v[col]>>)

SetMax(S) == CHOOSE m \in S : \A x \in S : x <= m

\* the cell written where a row is shorter than the longest row
PadCell(impl) ==
    IF impl = "wasm" THEN NamedCell(<<>>, "blank") ELSE TypedCell(Wire(<<>>, Blank))

NoSize == [some |-> FALSE, w |-> 0, h |-> 0]

NoTyped == [some |-> FALSE, is_2d |-> FALSE, rows |-> <<>>]

NoValue == [some |-> FALSE, w |-> Wire(<<>>, Blank)]

ShapeRaised ==
    [raised |-> TRUE, typed |-> NoTyped, has_array |-> FALSE, output_value |-> NoValue,
     output_type |-> "", output_size |-> NoSize]

\* type(output_value).__name__
TypeName(value) == IF value.k = "None" THEN "NoneType" ELSE value.k

\* an output_value that is removed only when it is None
RemoveOutputValue_NoneOnly(impl, has_array, output_value) ==
    IF output_value.k = "None" THEN NoValue
    ELSE [some |-> TRUE, w |-> EncodeFor(impl, output_value)]

\* "removes output_value if there's an array or None"
RemoveOutputValue(impl, has_array, output_value) ==
    IF has_array \/ output_value.k = "None" THEN NoValue
    ELSE [some |-> TRUE, w |-> EncodeFor(impl, output_value)]

process_output_value(impl, output_value) ==
    LET isList == output_value.k = "list"
        keep == isList /\ Len(output_value.v) > 0 /\ ~isListEmpty(output_value)
        array_output == output_value.v
        scalar == IF isList /\ ~keep THEN PyStr(<<>>) ELSE output_value
        output_size ==
            IF ~keep THEN NoSize
            ELSE IF array_output[1].k = "list"
                 THEN [some |-> TRUE, w |-> Len(array_output[1].v), h |-> Len(array_output)]
                 ELSE [some |-> TRUE, w |-> 1, h |-> Len(array_output)]
        is_2d_array == keep /\ array_output[1].k = "list" /\ Len(array_output[1].v) > 0
        length_1d == Len(array_output)
        length_2d == SetMax({PyLen(array_output[r]) : r \in 1..length_1d})
        rows ==
            IF ~is_2d_array
            THEN [r \in 1..length_1d |-> <<TypedCell(EncodeFor(impl, array_output[r]))>>]
            ELSE [r \in 1..length_1d |->
                     [c \in 1..length_2d |->
                         IF c > PyLen(array_output[r]) THEN PadCell(impl)
                         ELSE TypedCell(EncodeFor(impl, PyItem(array_output[r], c)))]]
    IN  IF is_2d_array /\ \E r \in 1..length_1d : ~HasLen(array_output[r])
        THEN ShapeRaised
        ELSE [raised |-> FALSE,
              typed |-> IF keep THEN [some |-> TRUE, is_2d |-> is_2d_array, rows |-> rows]
                        ELSE NoTyped,
              has_array |-> keep,
              output_value |-> RemoveOutputValue(impl, keep, scalar),
              output_type |-> TypeName(output_value),
              output_size |-> output_size]

(***************************************************************************)
(* Outputs handed to the shaper: scalars, and lists of up to MaxRows        *)
(* elements, each element a scalar or a row of up to MaxCols cells.  The    *)
(* cells are taken from SampleCells, starting at any of its entries.        *)
(***************************************************************************)
SampleCells ==
    <<PyNone, PyIntV(7), PyStr(<<"a">>), PyList(<<>>), PyBool(TRUE), PyStr(<<>>),
      PyFloatV([m |-> 15, e |-> 1])>>

CellAt(seed, r, c) == SampleCells[((seed + 3 * r + c) % Len(SampleCells)) + 1]

\* shape -1: the element is a scalar; shape n >= 0: it is a row of n cells
ElementAt(seed, r, shape) ==
    IF shape = -1 THEN CellAt(seed, r, 0)
    ELSE PyList([c \in 1..shape |-> CellAt(seed, r, c)])

ListOutput(seed, shapes) == PyList([r \in 1..Len(shapes) |-> ElementAt(seed, r, shapes[r])])

Shapes == UNION {[1..n -> -1..MaxCols] : n \in 0..MaxRows}

Seeds == 0..(Len(SampleCells) - 1)

InitShape ==
    /\ s_pc = "idle"
    /\ s_impl = "none"
    /\ s_in = PyNone
    /\ s_res = ShapeRaised

Shape(impl, output_value) ==
    /\ s_pc' = "shaped"
    /\ s_impl' = impl
    /\ s_in' = output_value
    /\ s_res' = process_output_value(impl, output_value)
    /\ UNCHANGED notShape

ShapeList ==
    /\ s_pc = "idle"
    /\ \E impl \in {"wasm", "cloud"}, seed \in Seeds, shapes \in Shapes :
           Shape(impl, ListOutput(seed, shapes))

ShapeScalar ==
    /\ s_pc = "idle"
    /\ \E impl \in {"wasm", "cloud"}, seed \in Seeds : Shape(impl, CellAt(seed, 0, 0))

NextShape == ShapeList \/ ShapeScalar

(***************************************************************************)
(* Claims about the output shaper (checked under SpecShape).                *)
(***************************************************************************)
\* a 2D output: a non-empty list every element of which is a list, not all
\* of them (recursively) empty
Is2DOutput(value) ==
    /\ value.k = "list"
    /\ Len(value.v) > 0
    /\ \A r \in 1..Len(value.v) : value.v[r].k = "list"
    /\ ~isListEmpty(value)

IsBlankCell(cell) == cell.p = <<>> /\ (cell.t = Blank \/ cell.ts = "blank")

\* C4: rectangularity: for every 2D (list-of-lists) output the shaped grid has
\* every row of the same length, the maximum row length; a shorter row, in
\* any position, is padded on the right with the Blank cell, and the cells a
\* row supplied are its encoded items in place.
C4_Rectangular ==
    (s_pc = "shaped" /\ Is2DOutput(s_in)) =>
        LET width == SetMax({Len(s_in.v[r].v) : r \in 1..Len(s_in.v)})
        IN  /\ ~s_res.raised
            /\ s_res.typed.some
            /\ s_res.typed.is_2d
            /\ Len(s_res.typed.rows) = Len(s_in.v)
            /\ \A r \in 1..Len(s_in.v) :
                   /\ Len(s_res.typed.rows[r]) = width
                   /\ \A c \in 1..width :
                          IF c > Len(s_in.v[r].v) THEN IsBlankCell(s_res.typed.rows[r][c])
                          ELSE s_res.typed.rows[r][c].p = EncodeFor(s_impl, s_in.v[r].v[c]).p

\* the tags of the canonical enum
CanonicalTags == {Blank, Text, Number, Logical, Duration, Date, Time, DateTime}

IsCanonicalCell(cell) == cell.ts = "" /\ cell.t \in CanonicalTags

\* C15: every wire tag the shaper emits, for the scalar output_value and for
\* every cell of the typed array, padding cells included, is an integer of
\* the canonical enum.
C15_CanonicalTags ==
    (s_pc = "shaped" /\ ~s_res.raised) =>
        /\ s_res.output_value.some => s_res.output_value.w.t \in CanonicalTags
        /\ s_res.typed.some =>
               \A r \in 1..Len(s_res.typed.rows) :
                   \A c \in 1..Len(s_res.typed.rows[r]) :
                       IsCanonicalCell(s_res.typed.rows[r][c])

RECURSIVE OnlyEmptyLists(_)
\* a list that holds nothing but such lists
OnlyEmptyLists(value) ==
    /\ value.k = "list"
    /\ \A i \in 1..Len(value.v) : OnlyEmptyLists(value.v[i])

\* C17: an empty list, or a list all of whose nested elements are
\* (recursively) empty lists, is shaped as the single scalar ("", Blank):
\* there is no array output and no output_size.
C17_EmptyListIsBlank ==
    (s_pc = "shaped" /\ OnlyEmptyLists(s_in)) =>
        /\ ~s_res.raised
        /\ s_res.output_value.some
        /\ s_res.output_value.w = Wire(<<>>, Blank)
        /\ ~s_res.has_array
        /\ ~s_res.typed.some
        /\ ~s_res.output_size.some

\* [[], [[]]] was shaped: a list of empty and nested-empty lists
C17_Witness ==
    /\ s_pc = "shaped"
    /\ s_in = PyList(<<PyList(<<>>), PyList(<<PyList(<<>>)>>)>>)
    /\ s_res.output_value.some
    /\ s_res.output_value.w = Wire(<<>>, Blank)
    /\ ~s_res.has_array

\* C23: whenever an array result is produced, output_size is (columns, rows)
\* of the emitted typed array: its common row length, 1 for a flat array,
\* and its row count.
C23_OutputSize ==
    (s_pc = "shaped" /\ ~s_res.raised /\ s_res.has_array) =>
        /\ s_res.typed.some
        /\ s_res.output_size.some
        /\ s_res.output_size.h = Len(s_res.typed.rows)
        /\ \A r \in 1..Len(s_res.typed.rows) :
               Len(s_res.typed.rows[r]) = s_res.output_size.w

\* C29: in every result of process_output_value the scalar output_value and
\* the typed array are never both non-null: an array result always clears
\* output_value, a scalar result never has an array, and a null input yields
\* neither.
C29_ValueOrArray ==
    (s_pc = "shaped" /\ ~s_res.raised) =>
        /\ ~(s_res.output_value.some /\ s_res.typed.some)
        /\ (s_in.k = "list" /\ ~OnlyEmptyLists(s_in)) =>
               (s_res.typed.some /\ ~s_res.output_value.some)
        /\ s_in.k \notin {"list", "None"} =>
               (s_res.output_value.some /\ ~s_res.typed.some /\ ~s_res.has_array)
        /\ s_in.k = "None" => (~s_res.output_value.some /\ ~s_res.typed.some)

\* a list of rows was shaped into a 2D typed array and no scalar
C29_Witness ==
    /\ s_pc = "shaped"
    /\ ~s_res.raised
    /\ s_in.k = "list" /\ Len(s_in.v) = 2 /\ s_in.v[1] = PyList(<<PyIntV(7), PyStr(<<"a">>)>>)
    /\ s_res.typed.some /\ s_res.typed.is_2d
    /\ ~s_res.output_value.some

(***************************************************************************)
(* Range fetcher: getCells / getCell of run_python.py (wasm kernel and      *)
(* client), _process_cells_response of quadratic.py and the fetch script    *)
(* of the cloud worker (convert_cell_value.py).                             *)
(***************************************************************************)
MaxSide == 2        \* a fetched range is at most MaxSide wide and MaxSide high
MaxReads == 2       \* an evaluation makes at most MaxReads host reads

Origins == {<<0, 0>>, <<2, 1>>}

NoSheet == ""       \* sheet=None, the current sheet

Sheets == {NoSheet, "Sheet 2"}

\* the missing value pandas puts in a DataFrame built without data
PyNaN == [k |-> "NaN", v |-> 0]

\* what the sheet holds at (x, y)
SampleWires ==
    <<Wire(<<"7">>, Number), Wire(<<"a">>, Text), Wire(<<"t", "r", "u", "e">>, Logical),
      Wire(<<>>, Blank), Wire(<<"2", "0", "1", "2", "-", "1", "2", "-", "2", "1">>, Date)>>

SheetWire(x, y) == SampleWires[((x + 2 * y + 2 * Len(SampleWires)) % Len(SampleWires)) + 1]

SheetCell(x, y) == [x |-> x, y |-> y, w |-> SheetWire(x, y)]

\* the type_name the host sends beside the value (run_python.py readers)
TypeNameOf(t) ==
    CASE t = Blank -> "blank"
      [] t = Text -> "text"
      [] t = Number -> "number"
      [] t = Logical -> "logical"
      [] OTHER -> "instant"

RangeW(req) == req.x1 - req.x0 + 1

RangeH(req) == req.y1 - req.y0 + 1

\* run_python.py to_python_type(value, value_type)
to_python_type_old(value, value_type) ==
    IF value_type = "number" THEN number_type(value)
    ELSE IF value_type = "text" THEN PyStr(value)
    ELSE IF value_type = "logical" THEN PyBool(value # <<>>)
    ELSE PyStr(value)

\* the conversion each reader applies to a response cell: result_to_value
\* (run_python.py), the raw value (client), to_python_type_df for a frame and
\* utils.result_to_value for a single cell (quadratic.py), convert_cell_value
\* (cloud)
ConvFor(impl, req, w) ==
    CASE impl = "kernel" -> Returned(to_python_type_old(w.p, TypeNameOf(w.t)))
      [] impl = "client" -> Returned(PyStr(w.p))
      [] impl = "webworker" -> Returned(PyStr(IF w.p = <<>> THEN <<"0">> ELSE w.p))
      [] impl = "quadratic" ->
            Returned(IF w.t = Duration /\ ~(RangeW(req) = 1 /\ RangeH(req) = 1) THEN PyStr(w.p)
                     ELSE to_python_type(w.p, w.t))
      [] impl = "cloud" -> convert_cell_value(w.p, w.t)

\* every cell of a response, converted
Converted(impl, req, cells) == [i \in 1..Len(cells) |-> ConvFor(impl, req, cells[i].w)] \o <<>>

\* where a response cell lands: data[row][col] of a list of lists takes a
\* negative index from the end and raises IndexError beyond either end
\* (quadratic.py); the cloud script skips a cell outside the rectangle
PosFor(impl, req, cell) ==
    LET row == cell.y - req.y0
        col == cell.x - req.x0
        h == RangeH(req)
        w == RangeW(req)
    IN  IF 0 <= row /\ row < h /\ 0 <= col /\ col < w
        THEN [ok |-> TRUE, skip |-> FALSE, r |-> row + 1, c |-> col + 1]
        ELSE IF impl = "cloud" THEN [ok |-> TRUE, skip |-> TRUE, r |-> 0, c |-> 0]
        ELSE IF -h <= row /\ row < h /\ -w <= col /\ col < w
        THEN [ok |-> TRUE, skip |-> FALSE,
              r |-> (IF row < 0 THEN row + h ELSE row) + 1,
              c |-> (IF col < 0 THEN col + w ELSE col) + 1]
        ELSE [ok |-> FALSE, skip |-> FALSE, r |-> 0, c |-> 0]

\* str(val) of a header cell
StrOf(value) ==
    CASE value.k = "date" -> DateStr(value.v)
      [] value.k = "time" -> TimeStr(value.v)
      [] value.k = "datetime" -> DateStr(value.v) \o <<" ">> \o TimeStr(value.v)
      [] value.k = "NaN" -> <<"n", "a", "n">>
      [] OTHER -> PyStrOf(value)

NoOut ==
    [raised |-> FALSE, kind |-> "none", val |-> PyNone, list |-> <<>>, header |-> <<>>,
     rows |-> <<>>]

RaisedOut == [NoOut EXCEPT !.raised = TRUE]

\* the DataFrame of a response whose cells, converted to `vals`, land at
\* `pos`: every position starts as `blank`, each cell of the response is
\* written in turn (a later cell overwrites an earlier one), then the first
\* row may become the header
FrameAt(impl, req, vals, blank, pos) ==
    LET at(r, c) == {i \in 1..Len(vals) : /\ pos[i].ok
                                          /\ ~pos[i].skip
                                          /\ pos[i].r = r
                                          /\ pos[i].c = c}
        data == [r \in 1..RangeH(req) |-> [c \in 1..RangeW(req) |->
                    IF at(r, c) = {} THEN blank ELSE vals[SetMax(at(r, c))].val]]
    IN  IF \/ \E i \in 1..Len(vals) : ~pos[i].ok
           \/ \E i \in 1..Len(vals) : ~pos[i].skip /\ vals[i].raised
        THEN RaisedOut
        ELSE IF req.header
        THEN [NoOut EXCEPT !.kind = "frame",
                           !.header = [c \in 1..RangeW(req) |->
                                          IF impl \in {"quadratic", "cloud"}
                                          THEN PyStr(StrOf(data[1][c]))
                                          ELSE data[1][c]],
                           !.rows = Tail(data)]
        ELSE [NoOut EXCEPT !.kind = "frame", !.rows = data]

\* (the positions are computed once, before the frame is filled)
Frame(impl, req, cells, vals, blank) ==
    CHOOSE out \in {FrameAt(impl, req, vals, blank, pos) :
                        pos \in {[i \in 1..Len(cells) |-> PosFor(impl, req, cells[i])] \o <<>>}} :
        TRUE

\* what a reader returns for the request `req` once the host has answered
\* with `cells`, whose converted values are `vals`:
\*   kernel    - run_python.py (wasm kernel) getCells
\*   client    - run_python.py (client) getCells
\*   quadratic - quadratic.py _process_cells_response (kind "error": the
\*               response carries an error; "novalues": response.values is None)
\*   cloud     - convert_cell_value.py, the script after the definitions
Fetched(impl, req, kind, cells, vals) ==
    LET single == RangeW(req) = 1 /\ RangeH(req) = 1
    IN  CASE impl = "kernel" /\ (RangeW(req) = 1 \/ RangeH(req) = 1) ->
                [NoOut EXCEPT !.kind = "series", !.list = [i \in 1..Len(vals) |-> vals[i].val]]
          [] impl = "quadratic" /\ kind = "error" -> RaisedOut
          [] impl = "quadratic" /\ kind = "novalues" -> NoOut
          [] impl = "quadratic" /\ kind = "values" /\ single /\ cells = <<>> -> RaisedOut
          [] impl = "cloud" /\ single /\ cells = <<>> -> NoOut
          [] impl = "cloud" /\ single /\ cells # <<>> /\ vals[1].raised -> RaisedOut
          [] impl \in {"quadratic", "cloud"} /\ kind = "values" /\ single /\ cells # <<>>
                /\ ~vals[1].raised ->
                [NoOut EXCEPT !.kind = "scalar", !.val = vals[1].val]
          [] OTHER ->
                Frame(impl, req, cells, vals, IF impl \in {"kernel", "client"} THEN PyNaN ELSE PyNone)

\* run_python.py getCell, after the host answered
getCell_result(cells, vals) ==
    IF Len(cells) > 0 THEN [NoOut EXCEPT !.kind = "scalar", !.val = vals[1].val]
    ELSE NoOut

(***************************************************************************)
(* Requests, host responses and the reads.                                  *)
(***************************************************************************)
Requests ==
    {[x0 |-> o[1], y0 |-> o[2], x1 |-> o[1] + w - 1, y1 |-> o[2] + h - 1,
      sheet |-> sheet, header |-> header] :
        o \in Origins, w \in 1..MaxSide, h \in 1..MaxSide, sheet \in Sheets, header \in BOOLEAN}

\* every cell of the range, row by row
RowMajor(req) ==
    [i \in 1..(RangeW(req) * RangeH(req)) |->
        SheetCell(req.x0 + ((i - 1) % RangeW(req)), req.y0 + ((i - 1) \div RangeW(req)))]

Reverse(s) == [i \in 1..Len(s) |-> s[Len(s) + 1 - i]]

\* the entries of s at the indices of parity `odd`
EveryOther(s, odd) ==
    LET idx == {i \in 1..Len(s) : (i % 2 = 1) = odd}
        nth(j) == CHOOSE i \in idx : Cardinality({k \in idx : k < i}) = j - 1
    IN  [j \in 1..Cardinality(idx) |-> s[nth(j)]]

\* responses that hold cells of the requested range only: full, sparse, empty
InRangeShapes == {"full", "reversed", "empty", "even", "odd", "last"}

\* responses that also hold a cell outside the requested range
StrayShapes == {"stray_before", "stray_after"}

ResponseCells(req, shape) ==
    CASE shape = "full" -> RowMajor(req)
      [] shape = "reversed" -> Reverse(RowMajor(req))
      [] shape = "empty" -> <<>>
      [] shape = "even" -> EveryOther(RowMajor(req), FALSE)
      [] shape = "odd" -> EveryOther(RowMajor(req), TRUE)
      [] shape = "last" -> <<SheetCell(req.x1, req.y1)>>
      [] shape = "stray_before" -> RowMajor(req) \o <<SheetCell(req.x0 - 1, req.y0 - 1)>>
      [] shape = "stray_after" -> RowMajor(req) \o <<SheetCell(req.x1 + 1, req.y1)>>

Values(cells) == [kind |-> "values", cells |-> cells]

\* the loops nested the other way round: y outer, x inner
ScanLog_YOuter(req) ==
    [i \in 1..(RangeW(req) * RangeH(req)) |->
        <<req.x0 + ((i - 1) % RangeW(req)), req.y0 + ((i - 1) \div RangeW(req)), req.sheet>>]

\* the two nested loops of getCells: x outer, y inner
ScanLog(req) ==
    [i \in 1..(RangeW(req) * RangeH(req)) |->
        <<req.x0 + ((i - 1) \div RangeH(req)), req.y0 + ((i - 1) % RangeH(req)), req.sheet>>]

\* no q object yet
NoQ == [exists |-> FALSE, probe |-> "none", probes |-> 0, cells |-> "none"]

InitFetch ==
    /\ f_pc = "idle"
    /\ f_impl = "none"
    /\ f_call = "none"
    /\ f_req = [x0 |-> 0, y0 |-> 0, x1 |-> 0, y1 |-> 0, sheet |-> NoSheet, header |-> FALSE]
    /\ f_resp = Values(<<>>)
    /\ f_out = NoOut
    /\ f_log = <<>>
    /\ f_before = <<>>
    /\ f_reads = 0
    /\ f_q = NoQ

\* a read is called: the coordinates are logged, then the host is asked
Call(impl, name, req, logged) ==
    /\ f_impl \in {"none", impl}
    /\ f_pc' = "awaiting"
    /\ f_impl' = impl
    /\ f_call' = name
    /\ f_req' = req
    /\ f_before' = f_log
    /\ f_log' = f_log \o logged
    /\ f_reads' = f_reads + 1
    /\ UNCHANGED <<f_resp, f_out, f_q>>
    /\ UNCHANGED notFetch

\* getCell of the web worker's run_python.py appends to cells_accessed after
\* the awaited host call has returned
LogsAfterFetch(impl, name) == impl = "webworker" /\ name = "getCell"

GetCellsCall ==
    /\ f_pc = "idle"
    /\ f_reads < MaxReads
    /\ \E impl \in {"kernel", "client"}, req \in Requests :
           Call(impl, "getCells", req, ScanLog(req))

GetCellCall ==
    /\ f_pc = "idle"
    /\ f_reads < MaxReads
    /\ \E impl \in {"kernel", "client", "webworker"}, o \in Origins, sheet \in Sheets :
           Call(impl, "getCell",
                [x0 |-> o[1], y0 |-> o[2], x1 |-> o[1], y1 |-> o[2], sheet |-> sheet,
                 header |-> FALSE],
                IF LogsAfterFetch(impl, "getCell") THEN <<>> ELSE <<<<o[1], o[2], sheet>>>>)

\* the host answers: the reader converts the cells and builds its result
Return(name, impl, req, kind, cells) ==
    \E vals \in {Converted(impl, req, cells)} :
        /\ f_resp' = [kind |-> kind, cells |-> cells]
        /\ f_out' = IF name = "getCell" THEN getCell_result(cells, vals)
                    ELSE Fetched(impl, req, kind, cells, vals)
        /\ f_pc' = IF name \in {"getCell", "getCells"} THEN "idle" ELSE "processed"
        /\ f_impl' = impl
        /\ f_call' = name
        /\ f_req' = req
        /\ f_log' = IF LogsAfterFetch(impl, name)
                    THEN Append(f_log, <<req.x0, req.y0, req.sheet>>) ELSE f_log
        /\ UNCHANGED <<f_before, f_reads, f_q>>
        /\ UNCHANGED notFetch

\* the host answers getCells or getCell
HostReturns ==
    /\ f_pc = "awaiting"
    /\ \E shape \in IF f_call = "getCell" THEN {"full", "empty"} ELSE InRangeShapes :
       \E cells \in {ResponseCells(f_req, shape)} :
           Return(f_call, f_impl, f_req, "values", cells)

\* the host request fails: the exception leaves the reader
HostFails ==
    /\ f_pc = "awaiting"
    /\ f_pc' = "failed"
    /\ f_resp' = [kind |-> "error", cells |-> <<>>]
    /\ f_out' = RaisedOut
    /\ UNCHANGED <<f_impl, f_call, f_req, f_log, f_before, f_reads, f_q>>
    /\ UNCHANGED notFetch

ResponseKinds == {"values", "error", "novalues"}

\* the reader that is handed a whole response: the cloud script
ProcessResponse ==
    /\ f_pc = "idle"
    /\ f_impl = "none"
    /\ \E req \in Requests, shape \in InRangeShapes \cup StrayShapes :
       \E cells \in {ResponseCells(req, shape)} : Return("cells", "cloud", req, "values", cells)

\* what the hasSharedArrayBuffer probe does when q.__init__ runs it: it
\* reports the fast channel, reports none, cannot be imported, or raises
ProbeOutcomes == {"fast", "slow", "missing", "raises"}

\* q.__init__ with an except branch that takes the channel for missing
q__init___FallbackAsync(probe) ==
    [exists |-> TRUE, probe |-> probe, probes |-> 1,
     cells |-> IF probe = "fast" THEN "_cells_sync" ELSE "_cells_async"]

\* q.__init__: one probe; the bare except takes the channel for available
q__init__(probe) ==
    LET has_sab == IF probe \in {"missing", "raises"} THEN TRUE ELSE probe = "fast"
    IN  [exists |-> TRUE, probe |-> probe, probes |-> 1,
         cells |-> IF has_sab THEN "_cells_sync" ELSE "_cells_async"]

\* what getCellsA1 hands back: the response itself over the fast channel, a
\* Promise without it; a host whose probe is unavailable may be either
GetCellsA1Results(probe) ==
    CASE probe = "fast" -> {"response"}
      [] probe = "slow" -> {"promise"}
      [] OTHER -> {"response", "promise"}

\* the host creates the evaluation's q object
NewQ ==
    /\ f_pc = "idle"
    /\ f_impl = "none"
    /\ \E probe \in ProbeOutcomes : f_q' = q__init__(probe)
    /\ f_pc' = "ready"
    /\ f_impl' = "quadratic"
    /\ UNCHANGED <<f_call, f_req, f_resp, f_out, f_log, f_before, f_reads>>
    /\ UNCHANGED notFetch

\* the snippet calls q.cells: _cells_sync takes what getCellsA1 returns in
\* place (a Promise has no error attribute: the read raises), _cells_async
\* awaits a Promise and takes a response as it is
CellsCall ==
    /\ f_pc \in {"ready", "processed"}
    /\ f_impl = "quadratic"
    /\ f_reads < MaxReads
    /\ \E req \in Requests, got \in GetCellsA1Results(f_q.probe) :
        /\ f_req' = req
        /\ f_pc' = CASE got = "response" -> "in_place"
                     [] f_q.cells = "_cells_async" -> "suspended"
                     [] OTHER -> "processed"
        /\ f_resp' = [kind |-> got, cells |-> <<>>]
        /\ f_out' = IF got = "promise" /\ f_q.cells = "_cells_sync" THEN RaisedOut ELSE NoOut
    /\ f_call' = "cells"
    /\ f_reads' = f_reads + 1
    /\ UNCHANGED <<f_impl, f_log, f_before, f_q>>
    /\ UNCHANGED notFetch

\* the host's response reaches _process_cells_response
CellsAnswer ==
    /\ f_pc \in {"in_place", "suspended"}
    /\ \E kind \in ResponseKinds, shape \in InRangeShapes \cup StrayShapes :
       /\ kind # "values" => shape = "empty"
       /\ \E cells \in {ResponseCells(f_req, shape)} :
              Return("cells", "quadratic", f_req, kind, cells)

NextFetch ==
    \/ GetCellsCall
    \/ GetCellCall
    \/ HostReturns
    \/ HostFails
    \/ ProcessResponse
    \/ NewQ
    \/ CellsCall
    \/ CellsAnswer

(***************************************************************************)
(* Claims about the range fetcher (checked under SpecFetch).                *)
(***************************************************************************)
\* pandas' and Python's null
IsNull(value) == value.k \in {"None", "NaN"}

InRect(req, cell) ==
    req.x0 <= cell.x /\ cell.x <= req.x1 /\ req.y0 <= cell.y /\ cell.y <= req.y1

\* the fetched value has one position for every coordinate of the range
HasAllPositions(out, req) ==
    CASE out.kind = "frame" -> /\ Len(out.rows) = RangeH(req)
                               /\ \A r \in 1..Len(out.rows) : Len(out.rows[r]) = RangeW(req)
      [] out.kind = "series" -> Len(out.list) = RangeW(req) * RangeH(req)
      [] OTHER -> RangeW(req) = 1 /\ RangeH(req) = 1

\* the value read at column offset col and row offset row
ValueAt(out, req, col, row) ==
    CASE out.kind = "frame" -> out.rows[row + 1][col + 1]
      [] out.kind = "series" -> out.list[(IF RangeW(req) = 1 THEN row ELSE col) + 1]
      [] out.kind = "scalar" -> out.val
      [] OTHER -> PyNone

\* C5: dense fill: for every range of width w and height h and every host
\* response (sparse, empty or full) made of cells of the range, a fetch yields
\* exactly w*h positions addressed by (x - x0, y - y0); a coordinate the
\* response holds reads as its converted cell and a coordinate absent from the
\* response reads as null, for 1-wide, 1-high and 1x1 ranges too.
C5_DenseFill ==
    (/\ f_pc \in {"idle", "processed"}
     /\ f_call \in {"getCells", "cells"}
     /\ f_resp.kind = "values"
     /\ \A i \in 1..Len(f_resp.cells) : InRect(f_req, f_resp.cells[i])
     /\ ~f_req.header)
    => /\ ~f_out.raised
       /\ HasAllPositions(f_out, f_req)
       /\ \A x \in f_req.x0..f_req.x1, y \in f_req.y0..f_req.y1 :
            LET here == {i \in 1..Len(f_resp.cells) :
                            f_resp.cells[i].x = x /\ f_resp.cells[i].y = y}
                read == ValueAt(f_out, f_req, x - f_req.x0, y - f_req.y0)
            IN  IF here = {} THEN IsNull(read)
                ELSE \E i \in here : SameValue(read, ConvFor(f_impl, f_req, f_resp.cells[i].w).val)

\* what the last getCells call added to cells_accessed
Added == SubSeq(f_log, Len(f_before) + 1, Len(f_log))

\* C6: one getCells of the range (x0,y0)-(x1,y1) on a sheet appends to
\* cells_accessed every coordinate (x, y, sheet) of the range exactly once, in
\* scan order (x outer, y inner), and keeps what was logged before; this holds
\* once the call has logged and still holds whatever cells the host returns.
C6_AccessLogScan ==
    (f_call = "getCells" /\ f_pc \in {"awaiting", "idle", "failed"}) =>
        /\ SubSeq(f_log, 1, Len(f_before)) = f_before
        /\ \A x \in f_req.x0..f_req.x1, y \in f_req.y0..f_req.y1 :
               Cardinality({i \in 1..Len(Added) : Added[i] = <<x, y, f_req.sheet>>}) = 1
        /\ Len(Added) = RangeW(f_req) * RangeH(f_req)
        /\ \A i, j \in 1..Len(Added) :
               i < j => \/ Added[i][1] < Added[j][1]
                        \/ Added[i][1] = Added[j][1] /\ Added[i][2] < Added[j][2]

\* a second read, of a range two wide and two high, answered with no cell at all
C6_Witness ==
    /\ f_call = "getCells"
    /\ f_pc = "idle"
    /\ f_before # <<>>
    /\ RangeW(f_req) = 2
    /\ RangeH(f_req) = 2
    /\ f_resp.cells = <<>>
    /\ Added = <<<<f_req.x0, f_req.y0, f_req.sheet>>, <<f_req.x0, f_req.y0 + 1, f_req.sheet>>,
                 <<f_req.x0 + 1, f_req.y0, f_req.sheet>>,
                 <<f_req.x0 + 1, f_req.y0 + 1, f_req.sheet>>>>

\* C30: a host response cell whose coordinates lie outside the requested
\* rectangle never affects the fetched grid: it neither overwrites an in-range
\* position (for instance through a negative row or column offset) nor makes
\* the fetch fail.
C30_StrayCellIgnored ==
    (/\ f_pc = "processed"
     /\ f_call = "cells"
     /\ f_resp.kind = "values"
     /\ \E i \in 1..Len(f_resp.cells) : ~InRect(f_req, f_resp.cells[i])
     /\ ~f_req.header)
    => /\ ~f_out.raised
       /\ HasAllPositions(f_out, f_req)
       /\ \A x \in f_req.x0..f_req.x1, y \in f_req.y0..f_req.y1 :
            LET here == {i \in 1..Len(f_resp.cells) :
                            f_resp.cells[i].x = x /\ f_resp.cells[i].y = y}
                read == ValueAt(f_out, f_req, x - f_req.x0, y - f_req.y0)
            IN  IF here = {} THEN IsNull(read)
                ELSE \E i \in here : SameValue(read, ConvFor(f_impl, f_req, f_resp.cells[i].w).val)

IsPrefix(a, b) == Len(a) <= Len(b) /\ SubSeq(b, 1, Len(a)) = a

\* the read in progress has appended every coordinate of its range, once,
\* behind what was logged before
ReadLogged ==
    /\ IsPrefix(f_before, f_log)
    /\ Len(f_log) = Len(f_before) + RangeW(f_req) * RangeH(f_req)
    /\ \A x \in f_req.x0..f_req.x1, y \in f_req.y0..f_req.y1 :
           \E i \in (Len(f_before) + 1)..Len(f_log) : f_log[i] = <<x, y, f_req.sheet>>

\* C27: across the host reads of an evaluation the AccessLog is append-only
\* and ordered by read: the coordinates of a read are appended before the
\* host request is issued, earlier entries are never removed or reordered,
\* and a read whose host fetch fails is still in cells_accessed.
C27_AccessLogAppendOnly ==
    /\ []((f_pc \in {"awaiting", "failed"} /\ f_call \in {"getCell", "getCells"}) => ReadLogged)
    /\ [][IsPrefix(f_log, f_log')]_vars

MaxStmts == 3

StmtKinds == {"import", "print", "read", "show", "raise"}

\* the source text of one statement; print's argument holds an escaped \n,
\* which is two characters of source and no line break
StmtText(kind) ==
    CASE kind = "import" -> <<"i", "m", "p", "o", "r", "t", " ", "p", "l", "o", "t", "l", "y">>
      [] kind = "print" -> <<"p", "r", "i", "n", "t", "(", "'", "\\", "n", "'", ")">>
      [] kind = "read" -> <<"c", "(", "0", ",", "0", ")">>
      [] kind = "show" -> <<"f", ".", "s", "h", "o", "w", "(", ")">>
      [] OTHER -> <<"r", "a", "i", "s", "e", " ", "E", "(", ")">>

RECURSIVE JoinLines(_)
JoinLines(lines) ==
    IF lines = <<>> THEN <<>>
    ELSE IF Len(lines) = 1 THEN StmtText(lines[1])
    ELSE StmtText(lines[1]) \o <<"\n">> \o JoinLines(Tail(lines))

\* the text of the snippet handed to run_python
CodeText(code) == JoinLines(code.lines) \o code.trailing

RECURSIVE CountChar(_, _)
\* str.count(c) for a one-character c
CountChar(s, c) ==
    IF s = <<>> THEN 0
    ELSE (IF s[1] = c THEN 1 ELSE 0) + CountChar(Tail(s), c)

\* a line number as the result dictionary carries it: an int, or the str "unknown"
Line(n) == [known |-> TRUE, n |-> n]

UnknownLine == [known |-> FALSE, n |-> 0]

\* a line count that does not strip the snippet first
get_return_line_NoStrip(code) == Line(CountChar(code, "\n") + 1)

get_return_line(code) == Line(CountChar(RStrip(code), "\n") + 1)

\* inspect.FrameInfo / traceback.FrameSummary
FrameInfo(filename, function, lineno) ==
    [filename |-> filename, function |-> function, lineno |-> lineno]

ExecFile == "<exec>"

\* the file names of the model's frames that contain "/_pyodide/"
PyodideFiles == {"/lib/python311.zip/_pyodide/_base.py"}

LoopFrame == FrameInfo("/lib/python311.zip/asyncio/events.py", "_run", 88)

RunPythonFrame == FrameInfo(ExecFile, "run_python", 170)

EvalCodeAsyncFrame == FrameInfo("/lib/python311.zip/_pyodide/_base.py", "eval_code_async", 597)

RunAsyncFrame == FrameInfo("/lib/python311.zip/_pyodide/_base.py", "run_async", 411)

UserFrame(function, lineno) == FrameInfo(ExecFile, function, lineno)

LibFrame(function, lineno) ==
    FrameInfo("/lib/python3.11/site-packages/plotly/io/_renderers.py", function, lineno)

SetResultFrame == FrameInfo("/lib/python3.11/site-packages/quadratic_py/plotly_patch.py", "set_result", 24)

\* the frames below the snippet while eval_code_async runs it, outermost first
HostFrames == <<LoopFrame, RunPythonFrame, EvalCodeAsyncFrame, RunAsyncFrame>>

StackShapes == {"module", "callback", "task"}

\* inspect.stack() inside set_result, innermost first, when the statement on
\* `lineno` shows a figure:
\*   "module"   the statement calls show() itself;
\*   "callback" the statement hands a lambda to the library, which calls it;
\*   "task"     the statement awaits a task whose coroutine shows the
\*              figure; the event loop runs the task on a stack that holds
\*              no eval_code_async frame.
ShowStack(shape, lineno) ==
    Reverse(
        CASE shape = "module" ->
                HostFrames \o <<UserFrame("<module>", lineno), LibFrame("show", 395),
                                LibFrame("open_html_in_browser", 71), SetResultFrame>>
          [] shape = "callback" ->
                HostFrames \o <<UserFrame("<module>", lineno), LibFrame("apply", 12),
                                UserFrame("<lambda>", lineno), LibFrame("show", 395),
                                LibFrame("open_html_in_browser", 71), SetResultFrame>>
          [] OTHER ->
                <<LoopFrame, UserFrame("draw", lineno), LibFrame("show", 395),
                  LibFrame("open_html_in_browser", 71), SetResultFrame>>)

IsHostFrame(frame) ==
    frame.filename \in PyodideFiles /\ frame.function = "eval_code_async"

\* itertools.dropwhile: what is left of s from its first index in `keep`,
\* the indices whose element fails the predicate
DropWhile(s, keep) ==
    IF keep = {} THEN <<>>
    ELSE SubSeq(s, CHOOSE i \in keep : \A j \in keep : i <= j, Len(s))

\* itertools.takewhile: the prefix of s before its first index in `stop`,
\* the indices whose element fails the predicate
TakeWhile(s, stop) ==
    IF stop = {} THEN s
    ELSE SubSeq(s, 1, (CHOOSE i \in stop : \A j \in stop : i <= j) - 1)

\* get_user_frames without the first dropwhile: it does not look for the
\* host's eval_code_async frame
get_user_frames_AnyExec(stack) ==
    LET rev_frames == Reverse(stack)
        from_exec == DropWhile(rev_frames,
                               {i \in 1..Len(rev_frames) : rev_frames[i].filename = ExecFile})
        user == TakeWhile(from_exec,
                          {i \in 1..Len(from_exec) : from_exec[i].filename # ExecFile})
    IN  [none |-> FALSE, frames |-> Reverse(user)]

\* none of the three iterators raises, so the except branch (None) is never taken
get_user_frames(stack) ==
    LET rev_frames == Reverse(stack)
        from_host == DropWhile(rev_frames,
                               {i \in 1..Len(rev_frames) : IsHostFrame(rev_frames[i])})
        from_exec == DropWhile(from_host,
                               {i \in 1..Len(from_host) : from_host[i].filename = ExecFile})
        user == TakeWhile(from_exec,
                          {i \in 1..Len(from_exec) : from_exec[i].filename # ExecFile})
    IN  [none |-> FALSE, frames |-> Reverse(user)]

\* the figure holder: _result (<<>> is None) and _result_set_from_line
NoFigure == <<>>

NoGate == [exists |-> FALSE, result |-> NoFigure, line |-> UnknownLine]

FreshGate == [exists |-> TRUE, result |-> NoFigure, line |-> UnknownLine]

\* the html of the figure that the statement on `lineno` shows
FigureHtml(lineno) == <<"<", "d", "i", "v", ">">> \o NatToStr(lineno)

\* an exception: its class, whether .args is non-empty, its traceback
\* (outermost first), SyntaxError.lineno and FigureDisplayError.source_line
Exc(cls, args, tb, lineno, source_line) ==
    [cls |-> cls, args |-> args, tb |-> tb, lineno |-> lineno, source_line |-> source_line]

NoExc == Exc("none", FALSE, <<>>, UnknownLine, UnknownLine)

\* the lines a FigureDisplayError's message names: "First produced on line
\* {first}, then on {then}"
NoMessage == [first |-> UnknownLine, then |-> UnknownLine]

\* a set_result that stores the line of the rejected call before it raises
set_result_LineFirst(gate, figure, stack) ==
    LET user_call_frames == get_user_frames(stack)
        tb == Reverse(stack)
    IN  IF ~user_call_frames.none /\ user_call_frames.frames = <<>>
        THEN [gate |-> gate, outcome |-> "IndexError", message |-> NoMessage,
              exc |-> Exc("IndexError", TRUE, tb, UnknownLine, UnknownLine)]
        ELSE LET current_result_set_from_line ==
                     IF user_call_frames.none THEN UnknownLine
                     ELSE Line(user_call_frames.frames[1].lineno)
             IN  IF gate.result # NoFigure
                 THEN [gate |-> [gate EXCEPT !.line = current_result_set_from_line], outcome |-> "FigureDisplayError",
                       message |-> [first |-> gate.line,
                                    then |-> current_result_set_from_line],
                       exc |-> Exc("FigureDisplayError", TRUE, tb, UnknownLine,
                                   current_result_set_from_line)]
                 ELSE [gate |-> [exists |-> TRUE, result |-> figure,
                                 line |-> current_result_set_from_line],
                       outcome |-> "recorded", message |-> NoMessage, exc |-> NoExc]

\* _FigureHolder.set_result called on `stack`: the holder afterwards and the
\* exception raised, if any.  user_call_frames[0] of an empty list is an
\* IndexError.  The FigureDisplayError's message names two lines.
set_result(gate, figure, stack) ==
    LET user_call_frames == get_user_frames(stack)
        tb == Reverse(stack)
    IN  IF ~user_call_frames.none /\ user_call_frames.frames = <<>>
        THEN [gate |-> gate, outcome |-> "IndexError", message |-> NoMessage,
              exc |-> Exc("IndexError", TRUE, tb, UnknownLine, UnknownLine)]
        ELSE LET current_result_set_from_line ==
                     IF user_call_frames.none THEN UnknownLine
                     ELSE Line(user_call_frames.frames[1].lineno)
             IN  IF gate.result # NoFigure
                 THEN [gate |-> gate, outcome |-> "FigureDisplayError",
                       message |-> [first |-> gate.line,
                                    then |-> current_result_set_from_line],
                       exc |-> Exc("FigureDisplayError", TRUE, tb, UnknownLine,
                                   current_result_set_from_line)]
                 ELSE [gate |-> [exists |-> TRUE, result |-> figure,
                                 line |-> current_result_set_from_line],
                       outcome |-> "recorded", message |-> NoMessage, exc |-> NoExc]

\* traceback.extract_tb(tb)[-1].lineno: the line of the innermost frame
line_number_from_traceback(tb) == Line(tb[Len(tb)].lineno)

\* the old cell pair of run_python.py: (payload, type name)
OldCell(v, name) == [v |-> v, name |-> name]

\* run_python.py's own to_quadratic_type, on the values a snippet ends with
to_quadratic_type_old(value) ==
    IF value.k = "None" \/ (value.k = "str" /\ value.v = <<>>)
    THEN OldCell(PyNone, "blank")
    ELSE IF IsNum(value) THEN OldCell(PyStr(PyStrOf(value)), "number")
    ELSE OldCell(PyStr(PyStrOf(value)), "text")

NoArray == [some |-> FALSE, is_2d |-> FALSE, cells |-> <<>>]

NoRes == [success |-> FALSE, error_class |-> "", line_number |-> UnknownLine,
          output |-> OldCell(PyNone, "none"), array |-> NoArray,
          std_out |-> <<>>, cells_accessed |-> <<>>]

\* what run_python does with its finished call: return a dictionary, or let
\* an exception out
Returns(res) == [pc |-> "returned", res |-> res, exc |-> NoExc]

Escapes(exc) == [pc |-> "escaped", res |-> NoRes, exc |-> exc]

\* error_result: error.args[0] of an exception built without arguments is
\* an IndexError, raised inside the except clause
error_result(error, cells_accessed, sout, line_number) ==
    IF ~error.args
    THEN Escapes(Exc("IndexError", TRUE, <<RunPythonFrame>>, UnknownLine, UnknownLine))
    ELSE [pc |-> "returned",
          res |-> [success |-> FALSE, error_class |-> error.cls,
                   line_number |-> line_number,
                   output |-> OldCell(PyNone, "none"), array |-> NoArray,
                   std_out |-> sout, cells_accessed |-> cells_accessed],
          exc |-> error]

\* the three except clauses of run_python
Caught(err, cells_accessed, sout) ==
    CASE err.cls = "FigureDisplayError" ->
            error_result(err, cells_accessed, sout, err.source_line)
      [] err.cls = "SyntaxError" ->
            error_result(err, cells_accessed, sout, err.lineno)
      [] OTHER ->
            error_result(err, cells_accessed, sout, line_number_from_traceback(err.tb))

\* a conflict test that looks at array_output only
HasConflict_ArrayOnly(gate, output_is_none, array_is_none) ==
    gate.exists /\ gate.result # NoFigure /\ ~array_is_none

\* the result-conflict test of the else block
HasConflict(gate, output_is_none, array_is_none) ==
    gate.exists /\ gate.result # NoFigure /\ (~output_is_none \/ ~array_is_none)

\* the kernel's typed_array_output; len() of a row that is no list or str
\* is a TypeError
TypedArray(array_output) ==
    IF array_output[1].k # "list"
    THEN [raised |-> FALSE,
          array |-> [some |-> TRUE, is_2d |-> FALSE,
                     cells |-> [i \in 1..Len(array_output) |->
                                   to_quadratic_type_old(array_output[i])]]]
    ELSE IF \E i \in 1..Len(array_output) : ~HasLen(array_output[i])
    THEN [raised |-> TRUE, array |-> NoArray]
    ELSE LET length_2d == SetMax({PyLen(array_output[i]) : i \in 1..Len(array_output)})
         IN  [raised |-> FALSE,
              array |-> [some |-> TRUE, is_2d |-> TRUE,
                         cells |-> [row \in 1..Len(array_output) |->
                                      [col \in 1..length_2d |->
                                          IF col > PyLen(array_output[row])
                                          THEN OldCell(PyNone, "blank")
                                          ELSE to_quadratic_type_old(
                                                   PyItem(array_output[row], col))]]]]

\* the values a snippet's last expression is drawn from: None, a number, the
\* empty str, the empty list, a list, a list whose second row is no list, a
\* ragged list of lists
FinalValues ==
    <<PyNone, PyIntV(5), PyStr(<<>>), PyList(<<>>),
      PyList(<<PyIntV(1), PyStr(<<"a">>)>>),
      PyList(<<PyList(<<PyIntV(1)>>), PyIntV(2)>>),
      PyList(<<PyList(<<PyIntV(1), PyIntV(2)>>), PyList(<<PyIntV(3)>>)>>)>>

\* the else block of run_python: post-processing of a completed execution.
\* The client copy builds no typed array and returns str(output_value);
\* ensure_not_cell leaves a list of plain values as it is.
Finished(impl, gate, value, code, cells_accessed, sout) ==
    LET array_is_none == ~(value.k = "list" /\ Len(value.v) > 0)
        output_value == IF value.k = "list" /\ Len(value.v) = 0 THEN PyStr(<<>>) ELSE value
        shown == IF gate.exists /\ gate.result # NoFigure THEN PyStr(gate.result)
                 ELSE output_value
        typed == IF array_is_none THEN [raised |-> FALSE, array |-> NoArray]
                 ELSE IF impl = "kernel" THEN TypedArray(value.v)
                 ELSE [raised |-> FALSE,
                       array |-> [some |-> TRUE, is_2d |-> value.v[1].k = "list",
                                  cells |-> value.v]]
        output == IF ~array_is_none \/ shown.k = "None"
                  THEN IF impl = "kernel" THEN OldCell(PyNone, "none")
                       ELSE OldCell(PyStr(<<>>), "str")
                  ELSE IF impl = "kernel" THEN to_quadratic_type_old(shown)
                       ELSE OldCell(PyStr(PyStrOf(shown)), "str")
    IN  IF HasConflict(gate, output_value.k = "None", array_is_none)
        THEN error_result(Exc("RuntimeError", TRUE, <<>>, UnknownLine, UnknownLine),
                          cells_accessed, sout, get_return_line(code))
        ELSE IF typed.raised
        THEN Escapes(Exc("TypeError", TRUE, <<RunPythonFrame>>, UnknownLine, UnknownLine))
        ELSE Returns([success |-> TRUE, error_class |-> "", line_number |-> UnknownLine,
                      output |-> output, array |-> typed.array,
                      std_out |-> sout, cells_accessed |-> cells_accessed])

\* the snippets of the model: up to MaxStmts statements, optional trailing
\* white space, and optionally a statement (syntax_line > 0) that does not
\* compile.  A show that follows no import of plotly is a figure rendered by
\* a library on the snippet's behalf: find_imports does not see plotly.
Trailings == {<<>>, <<"\n">>, <<"\n", " ", "\n">>}

ShowsAfterImport(lines) ==
    \A i \in 1..Len(lines) :
        lines[i] = "show" => \E j \in 1..(i - 1) : lines[j] = "import"

Snippets ==
    {c \in [lines : UNION {[1..n -> StmtKinds] : n \in 1..MaxStmts},
            trailing : Trailings, syntax_line : 0..MaxStmts] :
        c.syntax_line \in {0, Len(c.lines)}}

\* pyodide.code.find_imports(code): [] for text that does not parse
find_imports(code) ==
    IF code.syntax_line > 0 THEN {}
    ELSE {"plotly" : i \in {j \in 1..Len(code.lines) : code.lines[j] = "import"}}

\* intercept_plotly_html: a fresh holder if the snippet imports plotly
intercept_plotly_html(code) ==
    IF "plotly" \notin find_imports(code) THEN NoGate ELSE FreshGate

\* _make_open_html_patch(figure_holder.set_result): the module attribute
\* plotly.io._base_renderers.open_html_in_browser keeps the holder of the
\* evaluation that assigned it (owner) until another evaluation assigns it
NoPatch == [bound |-> FALSE, owner |-> 0, result |-> NoFigure, line |-> UnknownLine]

PatchFor(gate, evaluation, patch) ==
    IF gate.exists
    THEN [bound |-> TRUE, owner |-> evaluation, result |-> gate.result, line |-> gate.line]
    ELSE patch

\* the holder object behind the patch
PatchedHolder(patch) == [exists |-> TRUE, result |-> patch.result, line |-> patch.line]

NoCall == [made |-> FALSE, held |-> FALSE, outcome |-> "none", call_line |-> 0,
           source_line |-> UnknownLine, owner |-> 0, message |-> NoMessage]

MaxEvals == 2

NoCode == [lines |-> <<>>, trailing |-> <<>>, syntax_line |-> 0]

InitEval ==
    /\ e_pc = "ready"
    /\ e_impl = "kernel"
    /\ e_code = NoCode
    /\ e_ip = 1
    /\ e_gate = NoGate
    /\ e_call = NoCall
    /\ e_figs = <<>>
    /\ e_sout = <<>>
    /\ e_log = <<>>
    /\ e_value = [set |-> FALSE, v |-> PyNone]
    /\ e_exc = NoExc
    /\ e_res = NoRes
    /\ e_runs = 0
    /\ e_patch = NoPatch
    /\ e_evals = 0

\* run_python(code) up to the first statement: the holder is made, the
\* snippet is compiled; a SyntaxError is caught by the second except clause.
\* One interpreter runs one implementation of run_python.  A figure shown
\* through a library is in the model only where the renderer is patched.
Start ==
    /\ e_pc = "ready"
    /\ \E impl \in {"kernel", "client"}, code \in Snippets :
        LET out == Caught(Exc("SyntaxError", TRUE, <<RunPythonFrame>>,
                              Line(code.syntax_line), UnknownLine), <<>>, <<>>)
        IN  /\ e_evals = 0 \/ impl = e_impl
            /\ ShowsAfterImport(code.lines) \/ e_patch.bound
            /\ e_impl' = impl
            /\ e_code' = code
            /\ e_gate' = intercept_plotly_html(code)
            /\ e_patch' = PatchFor(intercept_plotly_html(code), e_evals + 1, e_patch)
            /\ e_evals' = e_evals + 1
            /\ e_runs' = e_runs + 1
            /\ IF code.syntax_line > 0
               THEN e_pc' = out.pc /\ e_res' = out.res /\ e_exc' = out.exc
               ELSE e_pc' = "running" /\ UNCHANGED <<e_res, e_exc>>
    /\ UNCHANGED <<e_ip, e_call, e_figs, e_sout, e_log, e_value>>
    /\ UNCHANGED notEval

Running(kind) ==
    /\ e_pc = "running"
    /\ e_ip <= Len(e_code.lines)
    /\ e_code.lines[e_ip] = kind

\* the traceback of an exception raised while the statement on `lineno`
\* runs, in the snippet itself or in the frames it called
UserTb(lineno, inner) ==
    <<RunPythonFrame, EvalCodeAsyncFrame, RunAsyncFrame, UserFrame("<module>", lineno)>> \o inner

\* an uncaught exception ends the execution: one of the except clauses runs
Fail(err, cells_accessed) ==
    LET out == Caught(err, cells_accessed, e_sout)
    IN  e_pc' = out.pc /\ e_res' = out.res /\ e_exc' = out.exc

\* import plotly: nothing the session records
ExecImport ==
    /\ Running("import")
    /\ e_ip' = e_ip + 1
    /\ UNCHANGED <<e_pc, e_impl, e_code, e_gate, e_call, e_figs, e_sout, e_log, e_value,
                   e_exc, e_res, e_runs, e_patch, e_evals>>
    /\ UNCHANGED notEval

\* print: redirect_stdout sends the text to sout
ExecPrint ==
    /\ Running("print")
    /\ e_ip' = e_ip + 1
    /\ e_sout' = Append(e_sout, e_ip)
    /\ UNCHANGED <<e_pc, e_impl, e_code, e_gate, e_call, e_figs, e_log, e_value,
                   e_exc, e_res, e_runs, e_patch, e_evals>>
    /\ UNCHANGED notEval

\* a cell read: the cell is logged, then the host answers or fails; a host
\* failure surfaces in getCell's frame of run_python.py
ExecRead ==
    /\ Running("read")
    /\ e_log' = Append(e_log, <<0, e_ip, NoSheet>>)
    /\ \E host_fails \in BOOLEAN :
        IF host_fails
        THEN /\ Fail(Exc("JsException", TRUE,
                         UserTb(e_ip, <<FrameInfo(ExecFile, "getCell", 143)>>),
                         UnknownLine, UnknownLine), e_log')
             /\ UNCHANGED e_ip
        ELSE /\ e_ip' = e_ip + 1
             /\ UNCHANGED <<e_pc, e_res, e_exc>>
    /\ UNCHANGED <<e_impl, e_code, e_gate, e_call, e_figs, e_sout, e_value, e_runs,
                   e_patch, e_evals>>
    /\ UNCHANGED notEval

\* a figure is shown: the patched open_html_in_browser calls set_result of
\* the holder it was made for; that holder is plotly_html of this evaluation
\* exactly when this evaluation made one
ExecShow ==
    /\ Running("show")
    /\ \E shape \in StackShapes :
        LET call == set_result(PatchedHolder(e_patch), FigureHtml(e_ip),
                               ShowStack(shape, e_ip))
        IN  /\ e_patch' = PatchFor(call.gate, e_patch.owner, e_patch)
            /\ e_gate' = IF e_gate.exists THEN call.gate ELSE e_gate
            /\ e_call' = [made |-> TRUE, held |-> e_patch.result # NoFigure,
                          outcome |-> call.outcome, call_line |-> e_ip,
                          source_line |-> call.exc.source_line,
                          owner |-> e_patch.owner, message |-> call.message]
            /\ IF call.outcome = "recorded"
               THEN /\ e_figs' = Append(e_figs, FigureHtml(e_ip))
                    /\ e_ip' = e_ip + 1
                    /\ UNCHANGED <<e_pc, e_res, e_exc>>
               ELSE /\ Fail(call.exc, e_log)
                    /\ UNCHANGED <<e_figs, e_ip>>
    /\ UNCHANGED <<e_impl, e_code, e_sout, e_log, e_value, e_runs, e_evals>>
    /\ UNCHANGED notEval

\* raise: with or without arguments, in the snippet or in a library frame
ExecRaise ==
    /\ Running("raise")
    /\ \E args \in BOOLEAN, in_library \in BOOLEAN :
        Fail(Exc("ValueError", args,
                 UserTb(e_ip, IF in_library THEN <<LibFrame("validate", 207)>> ELSE <<>>),
                 UnknownLine, UnknownLine), e_log)
    /\ UNCHANGED <<e_impl, e_code, e_ip, e_gate, e_call, e_figs, e_sout, e_log, e_value,
                   e_runs, e_patch, e_evals>>
    /\ UNCHANGED notEval

\* eval_code_async returns the value of the last expression; the else block
\* turns it into the result
Complete ==
    /\ e_pc = "running"
    /\ e_ip > Len(e_code.lines)
    /\ \E i \in 1..Len(FinalValues) :
        LET out == Finished(e_impl, e_gate, FinalValues[i], CodeText(e_code), e_log, e_sout)
        IN  /\ e_value' = [set |-> TRUE, v |-> FinalValues[i]]
            /\ e_pc' = out.pc
            /\ e_res' = out.res
            /\ e_exc' = out.exc
    /\ UNCHANGED <<e_impl, e_code, e_ip, e_gate, e_call, e_figs, e_sout, e_log, e_runs,
                   e_patch, e_evals>>
    /\ UNCHANGED notEval

\* run_python is done; the host calls it again in the same interpreter:
\* everything run_python made is gone, the module attributes stay
NextEvaluation ==
    /\ e_pc \in {"returned", "escaped"}
    /\ e_evals < MaxEvals
    /\ e_pc' = "ready"
    /\ e_code' = NoCode
    /\ e_ip' = 1
    /\ e_gate' = NoGate
    /\ e_call' = NoCall
    /\ e_figs' = <<>>
    /\ e_sout' = <<>>
    /\ e_log' = <<>>
    /\ e_value' = [set |-> FALSE, v |-> PyNone]
    /\ e_exc' = NoExc
    /\ e_res' = NoRes
    /\ e_runs' = 0
    /\ UNCHANGED <<e_impl, e_patch, e_evals>>
    /\ UNCHANGED notEval

NextEval ==
    \/ Start
    \/ NextEvaluation
    \/ ExecImport
    \/ ExecPrint
    \/ ExecRead
    \/ ExecShow
    \/ ExecRaise
    \/ Complete

(***************************************************************************)
(* Evaluation session: claims.                                              *)
(***************************************************************************)
\* C7: once set_result has recorded a figure on a holder, every later
\* set_result call of the same evaluation raises FigureDisplayError whose
\* source_line is the line of that later call, and the holder records at
\* most one figure per evaluation.
C7_SingleFigure ==
    /\ Len(e_figs) <= 1
    /\ (e_call.made /\ e_call.held) =>
          /\ e_call.outcome = "FigureDisplayError"
          /\ e_call.source_line = Line(e_call.call_line)

\* the execution of the snippet completed and run_python is done with it
Completed == e_pc \in {"returned", "escaped"} /\ e_value.set

Displayed == e_gate.exists /\ e_gate.result # NoFigure

\* C8: if the snippet displayed a figure and execution completes with a
\* non-null final value or array, run_python returns success = False with a
\* RuntimeError whose line is get_return_line(code); if the final value is
\* None, the displayed figure becomes the output and success = True.
C8_ResultConflict ==
    (Completed /\ Displayed) =>
        /\ e_pc = "returned"
        /\ IF e_value.v.k # "None"
           THEN /\ ~e_res.success
                /\ e_res.error_class = "RuntimeError"
                /\ e_res.line_number = get_return_line(CodeText(e_code))
                /\ ~e_res.array.some
           ELSE /\ e_res.success
                /\ e_res.output.v.k = "str"
                /\ e_res.output.v.v = e_gate.result
                /\ ~e_res.array.some

\* a figure was displayed on line 2 of three, the snippet ended with a list
\* and has trailing blank lines: the conflict is reported on line 3
C8_Witness ==
    /\ Completed
    /\ Displayed
    /\ e_value.v.k = "list"
    /\ e_code.trailing # <<>>
    /\ Len(e_code.lines) = 3
    /\ e_gate.line = Line(2)
    /\ e_pc = "returned"
    /\ ~e_res.success
    /\ e_res.line_number = Line(3)

\* C9: every evaluation returns exactly one result: an exception raised
\* while preparing, executing or post-processing the snippet becomes a
\* result with success = False that carries the error's class and a line
\* number; no exception escapes run_python, and the snippet is executed at
\* most once.
C9_OneResult ==
    /\ e_pc # "escaped"
    /\ e_runs <= 1
    /\ (e_pc = "returned" /\ e_exc.cls # "none") =>
          /\ ~e_res.success
          /\ e_res.error_class = e_exc.cls
          /\ e_res.line_number.known
    /\ (e_pc = "returned" /\ e_exc.cls = "none") => e_res.success

\* C14: evaluation isolation: no figure recorded by an earlier evaluation is
\* visible in a later one: a set_result call reaches the holder of the
\* running evaluation only, a figure it finds held was recorded by the same
\* evaluation, and a result that reports FigureDisplayError belongs to an
\* evaluation that recorded a figure itself.
C14_EvaluationIsolation ==
    /\ e_call.made => e_call.owner = e_evals
    /\ (e_call.made /\ e_call.held) => e_figs # <<>>
    /\ (e_pc = "returned" /\ e_res.error_class = "FigureDisplayError") => e_figs # <<>>

\* C18: when execution fails after the snippet has written to standard
\* output, run_python returns a failure result whose std_out is exactly the
\* text written before the failure.
C18_PartialStdout ==
    (e_exc.cls # "none" /\ e_sout # <<>>) =>
        /\ e_pc = "returned"
        /\ ~e_res.success
        /\ e_res.std_out = e_sout

\* the snippet was running when an exception ended it, and run_python
\* returned the failure
FailedWhileRunning ==
    /\ e_pc = "returned"
    /\ e_code.syntax_line = 0
    /\ ~e_value.set
    /\ ~e_res.success

\* C24: for an exception raised during execution the reported line_number
\* is a line of the user's snippet, the line of the statement that was
\* running: frames of the host runtime and of library code are filtered
\* out, also when the exception comes from a library function the snippet
\* called.
C24_UserLine ==
    FailedWhileRunning =>
        /\ e_res.line_number.known
        /\ e_res.line_number.n \in 1..Len(e_code.lines)
        /\ e_res.line_number.n = e_ip

\* C25: the first set_result call on a fresh holder records the figure and
\* never raises, whatever the call stack looks like: where get_user_frames
\* finds no frame of the snippet the figure is recorded with an unknown line.
C25_FirstShowRecords ==
    (e_call.made /\ ~e_call.held) =>
        /\ e_call.outcome = "recorded"
        /\ e_patch.result # NoFigure
        /\ e_patch.line \in {UnknownLine, Line(e_call.call_line)}

\* C26: a set_result call that fails with FigureDisplayError leaves the
\* holder unchanged: result is still the first figure and
\* result_set_from_line still the first call's line; the error message names
\* that first line and the line of the rejected call.
C26_RejectedShowKeepsGate ==
    [][(e_pc = "running" /\ e_call'.outcome = "FigureDisplayError") =>
          /\ e_patch' = e_patch
          /\ e_gate' = e_gate
          /\ e_call'.message = [first |-> e_patch.line, then |-> Line(e_ip)]]_vars

\* the figure of line 2 is held, the show on line 3 was rejected
C26_Witness ==
    /\ e_call.outcome = "FigureDisplayError"
    /\ e_call.call_line = 3
    /\ e_gate.exists
    /\ e_gate.result = FigureHtml(2)
    /\ e_gate.line = Line(2)
    /\ e_call.message = [first |-> Line(2), then |-> Line(3)]

(***************************************************************************)
(* Source rewriter: transform_async.py (add_await_to_cell_calls) and the    *)
(* client's attempt_fix_await.  Indices are 1-based: Python's index i is    *)
(* i + 1 here, and Python's -1 ("not found") is 0.                          *)
(***************************************************************************)
MaxTokens == 3

\* code[a:b] with 1-based a and exclusive b; empty when b <= a
Slice(code, a, b) ==
    IF b <= a \/ a > Len(code) THEN <<>>
    ELSE SubSeq(code, a, IF b - 1 > Len(code) THEN Len(code) ELSE b - 1)

\* code.startswith(word, i)
StartsAt(code, i, word) == Slice(code, i, i + Len(word)) = word

RECURSIVE FindFrom(_, _, _)
\* code.find(word, i): the first index >= i where word starts, 0 if none
FindFrom(code, word, i) ==
    IF i + Len(word) - 1 > Len(code) THEN 0
    ELSE IF StartsAt(code, i, word) THEN i
    ELSE FindFrom(code, word, i + 1)

IsAlnum(c) == IsDigit(c) \/ IsLowerAlpha(c) \/ IsUpperAlpha(c)

\* \w of re
IsWordChar(c) == IsAlnum(c) \/ c = "_"

IsQuote(c) == c \in {"\"", "'"}

RECURSIVE SkipString(_, _, _)
\* the inner loop over a single-quoted or double-quoted literal: the index
\* after its closing quote, or Len(code) + 1 if it is not closed
SkipString(code, i, quote) ==
    IF i > Len(code) THEN i
    ELSE IF code[i] = "\\" THEN SkipString(code, i + 2, quote)
    ELSE IF code[i] = quote THEN i + 1
    ELSE SkipString(code, i + 1, quote)

RECURSIVE ScanParens(_, _, _)
\* the while loop of _find_matching_close_paren: the final [i, depth]
ScanParens(code, i, depth) ==
    IF ~(i <= Len(code) /\ depth > 0) THEN [i |-> i, depth |-> depth]
    ELSE LET c == code[i]
         IN  IF IsQuote(c)
             THEN IF StartsAt(code, i, <<c, c, c>>)
                  THEN LET end == FindFrom(code, <<c, c, c>>, i + 3)
                       IN  ScanParens(code, IF end # 0 THEN end + 3 ELSE Len(code) + 1, depth)
                  ELSE ScanParens(code, SkipString(code, i + 1, c), depth)
             ELSE IF c = "(" THEN ScanParens(code, i + 1, depth + 1)
             ELSE IF c = ")" THEN ScanParens(code, i + 1, depth - 1)
             ELSE ScanParens(code, i + 1, depth)

_find_matching_close_paren(code, open_paren_index) ==
    LET end == ScanParens(code, open_paren_index + 1, 1)
    IN  IF end.depth = 0 THEN end.i - 1 ELSE 0

QCells == <<"q", ".", "c", "e", "l", "l", "s">>

RECURSIVE SkipSpace(_, _)
\* \s*: the first index >= i that holds no white space
SkipSpace(code, i) ==
    IF i <= Len(code) /\ IsSpace(code[i]) THEN SkipSpace(code, i + 1) ELSE i

\* \bq\.cells\s*\( matched at index i: the index of its "(", or 0
MatchQCells(code, i) ==
    IF StartsAt(code, i, QCells) /\ (i = 1 \/ ~IsWordChar(code[i - 1]))
    THEN LET j == SkipSpace(code, i + Len(QCells))
         IN  IF j <= Len(code) /\ code[j] = "(" THEN j ELSE 0
    ELSE 0

RECURSIVE FindIter(_, _)
\* re.finditer from index i: the non-overlapping matches, left to right, as
\* [start, open] with open the index of the match's "("
FindIter(code, i) ==
    IF i > Len(code) THEN <<>>
    ELSE IF MatchQCells(code, i) # 0
    THEN <<[start |-> i, open |-> MatchQCells(code, i)]>>
         \o FindIter(code, MatchQCells(code, i) + 1)
    ELSE FindIter(code, i + 1)

RECURSIVE AwaitLoop(_, _, _, _)
\* the for loop of add_await_to_cell_calls over the matches still to visit:
\* the final [result, last_end]
AwaitLoop(code, matches, result, last_end) ==
    IF matches = <<>> THEN [result |-> result, last_end |-> last_end]
    ELSE LET match == matches[1]
             close_paren_index == _find_matching_close_paren(code, match.open)
         IN  IF close_paren_index = 0
             THEN AwaitLoop(code, Tail(matches), result, last_end)
             ELSE AwaitLoop(code, Tail(matches),
                            result \o Slice(code, last_end, match.start)
                                   \o <<"(", "a", "w", "a", "i", "t", " ">> \o QCells \o <<"(">>
                                   \o Slice(code, match.open + 1, close_paren_index)
                                   \o <<")", ")">>,
                            close_paren_index + 1)

add_await_to_cell_calls(code) ==
    LET end == AwaitLoop(code, FindIter(code, 1), <<>>, 1)
    IN  end.result \o Slice(code, end.last_end, Len(code) + 1)

Await == <<"a", "w", "a", "i", "t", " ">>

RECURSIVE ReSubAwait(_, _, _)
\* re.sub(r"([^a-zA-Z0-9]|^)NAME", r"\1await NAME", code) from index i on:
\* a match is one non-alphanumeric character followed by NAME, or NAME at
\* the very start of the text; the scan resumes after the match
ReSubAwait(code, name, i) ==
    IF i > Len(code) THEN <<>>
    ELSE IF ~IsAlnum(code[i]) /\ StartsAt(code, i + 1, name)
    THEN <<code[i]>> \o Await \o name \o ReSubAwait(code, name, i + 1 + Len(name))
    ELSE IF i = 1 /\ StartsAt(code, 1, name)
    THEN Await \o name \o ReSubAwait(code, name, 1 + Len(name))
    ELSE <<code[i]>> \o ReSubAwait(code, name, i + 1)

RECURSIVE Replace(_, _, _, _)
\* str.replace(old, new) from index i on
Replace(code, old, new, i) ==
    IF i > Len(code) THEN <<>>
    ELSE IF StartsAt(code, i, old) THEN new \o Replace(code, old, new, i + Len(old))
    ELSE <<code[i]>> \o Replace(code, old, new, i + 1)

\* the accessor names of the six re.sub calls, in the order of the calls
AccessorNames ==
    <<<<"c", "e", "l", "l", "s", "(">>, <<"c", "e", "l", "l", "(">>, <<"c", "(">>,
      <<"g", "e", "t", "C", "e", "l", "l", "(">>,
      <<"g", "e", "t", "C", "e", "l", "l", "s", "(">>,
      <<"c", "e", "l", "l", "s", "[">>>>

\* the texts after "await " of the six replace calls, in the order of the calls
DoubledNames ==
    <<<<"g", "e", "t", "C", "e", "l", "l">>, <<"g", "e", "t", "C", "e", "l", "l", "s">>,
      <<"c", "(">>, <<"c", "e", "l", "l", "(">>, <<"c", "e", "l", "l", "s", "(">>,
      <<"c", "e", "l", "l", "s", "[">>>>

RECURSIVE InsertAwaits(_, _)
InsertAwaits(code, k) ==
    IF k > Len(AccessorNames) THEN code
    ELSE InsertAwaits(ReSubAwait(code, AccessorNames[k], 1), k + 1)

RECURSIVE DropDoubled(_, _)
DropDoubled(code, k) ==
    IF k > Len(DoubledNames) THEN code
    ELSE DropDoubled(Replace(code, Await \o Await \o DoubledNames[k],
                             Await \o DoubledNames[k], 1), k + 1)

\* the client's attempt_fix_await
attempt_fix_await(code) == DropDoubled(InsertAwaits(code, 1), 1)

(***************************************************************************)
(* The inverse transform: attempt_fix_await of utils.py, which removes the  *)
(* await before the cell accessors that are synchronous now.                *)
(***************************************************************************)
RECURSIVE ArgsEnd(_, _)
\* (?:[^\(\)]*|\([^\)]*\))*\) matched from index p: the index of the ")"
\* that ends the match, or 0.  Text without parentheses is passed over; at
\* a "(" the group runs to the next ")" whatever lies between; the first
\* ")" outside a group ends the match.
ArgsEnd(code, p) ==
    IF p > Len(code) THEN 0
    ELSE IF code[p] = ")" THEN p
    ELSE IF code[p] = "("
    THEN LET r == FindFrom(code, <<")">>, p + 1)
         IN  IF r = 0 THEN 0 ELSE ArgsEnd(code, r + 1)
    ELSE ArgsEnd(code, p + 1)

RECURSIVE SkipBlanks(_, _)
\* " +" after its first blank: the first index >= p that holds no blank
SkipBlanks(code, p) ==
    IF p <= Len(code) /\ code[p] = " " THEN SkipBlanks(code, p + 1) ELSE p

\* the index after the accessor name (with its bracket) that starts at p, or 0
NameEnd(code, p, names) ==
    LET hit == {k \in 1..Len(names) : StartsAt(code, p, names[k])}
    IN  IF hit = {} THEN 0 ELSE p + Len(names[CHOOSE k \in hit : TRUE])

\* the five await-removing patterns: the accessor names each one knows and
\* how the call is closed: "args" (nested groups), "paren" (the next ")"),
\* "bracket" (the next "]")
AwaitRules ==
    <<[names |-> <<<<"c", "(">>, <<"c", "e", "l", "l", "(">>,
                   <<"c", "e", "l", "l", "s", "(">>>>, close |-> "args"],
      [names |-> <<<<"c", "e", "l", "l", "s", "[">>>>, close |-> "bracket"],
      [names |-> <<<<"g", "e", "t", "C", "e", "l", "l", "(">>,
                   <<"g", "e", "t", "C", "e", "l", "l", "s", "(">>>>, close |-> "args"],
      [names |-> <<<<"r", "e", "l", "_", "c", "e", "l", "l", "(">>>>, close |-> "paren"],
      [names |-> <<<<"r", "c", "(">>>>, close |-> "args"]>>

\* the index of the character that closes the call whose arguments start at p, or 0
CloseAt(code, p, close) ==
    CASE close = "args" -> ArgsEnd(code, p)
      [] close = "paren" -> FindFrom(code, <<")">>, p)
      [] OTHER -> FindFrom(code, <<"]">>, p)

\* (?:await +)(NAME ...) matched at index p: [from, to], the bounds of the
\* captured call, or to = 0
AwaitMatch(code, p, rule) ==
    IF ~StartsAt(code, p, Await) THEN [from |-> 0, to |-> 0]
    ELSE LET from == SkipBlanks(code, p + Len(Await))
             args == NameEnd(code, from, rule.names)
         IN  [from |-> from,
              to |-> IF args = 0 THEN 0 ELSE CloseAt(code, args, rule.close)]

RECURSIVE RemoveAwait(_, _, _)
\* re.sub(r"(^|\W)(?:await +)(...)", r"\1\2", code) from index i on
RemoveAwait(code, rule, i) ==
    IF i > Len(code) THEN <<>>
    ELSE LET here == IF i = 1 THEN AwaitMatch(code, 1, rule) ELSE [from |-> 0, to |-> 0]
             next == IF ~IsWordChar(code[i]) THEN AwaitMatch(code, i + 1, rule)
                     ELSE [from |-> 0, to |-> 0]
         IN  IF here.to # 0
             THEN Slice(code, here.from, here.to + 1) \o RemoveAwait(code, rule, here.to + 1)
             ELSE IF next.to # 0
             THEN <<code[i]>> \o Slice(code, next.from, next.to + 1)
                  \o RemoveAwait(code, rule, next.to + 1)
             ELSE <<code[i]>> \o RemoveAwait(code, rule, i + 1)

\* c(?:ell)?(\([^\(\)]*\([^\)]*\)(?:...)*\)) matched at index p: [from, to],
\* the bounds of the captured parenthesis, or to = 0
TupleMatch(code, p) ==
    LET from == NameEnd(code, p, <<<<"c", "e", "l", "l", "(">>, <<"c", "(">>>>) - 1
        inner == IF from < 1 THEN 0 ELSE FindFrom(code, <<"(">>, from + 1)
        clean == inner # 0 /\ FindFrom(code, <<")">>, from + 1) > inner
        close == IF clean THEN FindFrom(code, <<")">>, inner + 1) ELSE 0
    IN  [from |-> from, to |-> IF close = 0 THEN 0 ELSE ArgsEnd(code, close + 1)]

CellsName == <<"c", "e", "l", "l", "s">>

RECURSIVE RenameToCells(_, _)
\* re.sub(r"(^|\W)c(?:ell)?(\(...\))", r"\1cells\2", code) from index i on
RenameToCells(code, i) ==
    IF i > Len(code) THEN <<>>
    ELSE LET here == IF i = 1 THEN TupleMatch(code, 1) ELSE [from |-> 0, to |-> 0]
             next == IF ~IsWordChar(code[i]) THEN TupleMatch(code, i + 1)
                     ELSE [from |-> 0, to |-> 0]
         IN  IF here.to # 0
             THEN CellsName \o Slice(code, here.from, here.to + 1)
                  \o RenameToCells(code, here.to + 1)
             ELSE IF next.to # 0
             THEN <<code[i]>> \o CellsName \o Slice(code, next.from, next.to + 1)
                  \o RenameToCells(code, next.to + 1)
             ELSE <<code[i]>> \o RenameToCells(code, i + 1)

RECURSIVE RemoveAwaits(_, _)
RemoveAwaits(code, k) ==
    IF k > Len(AwaitRules) THEN code
    ELSE RemoveAwaits(RemoveAwait(code, AwaitRules[k], 1), k + 1)

\* utils.attempt_fix_await
attempt_fix_await_utils(code) == RemoveAwaits(RenameToCells(code, 1), 1)

\* the pieces the model's snippets are put together from
Tokens ==
    <<QCells \o <<"(">>, <<")">>, <<"(">>, <<"\"">>, <<"'">>, <<"\\">>, <<" ">>,
      <<"x">>, <<"_">>, Await, <<"c", "e", "l", "l", "s", "(">>, <<"c", "(">>,
      <<")", ")">>, Await \o <<"c", "(">>, Await \o <<"r", "c", "(">>,
      <<"c", "e", "l", "l", "s", "[">>, <<"]">>>>

RECURSIVE Concat(_)
Concat(pieces) == IF pieces = <<>> THEN <<>> ELSE pieces[1] \o Concat(Tail(pieces))

SnippetTexts ==
    {Concat([i \in 1..Len(choice) |-> Tokens[choice[i]]]) :
        choice \in UNION {[1..n -> 1..Len(Tokens)] : n \in 0..MaxTokens}}

Transforms == {"add_await_to_cell_calls", "attempt_fix_await", "utils.attempt_fix_await"}

Transform(fn, code) ==
    CASE fn = "add_await_to_cell_calls" -> add_await_to_cell_calls(code)
      [] fn = "attempt_fix_await" -> attempt_fix_await(code)
      [] OTHER -> attempt_fix_await_utils(code)

InitRewrite ==
    /\ r_pc = "idle"
    /\ r_fn = "add_await_to_cell_calls"
    /\ r_code = <<>>
    /\ r_once = <<>>
    /\ r_twice = <<>>
    /\ r_close = 0

\* the transform is applied to a snippet
Rewrite ==
    /\ r_pc = "idle"
    /\ \E fn \in Transforms, code \in SnippetTexts :
        /\ r_fn' = fn
        /\ r_code' = code
        /\ r_once' = Transform(fn, code)
    /\ r_pc' = "once"
    /\ UNCHANGED <<r_twice, r_close>>
    /\ UNCHANGED notRewrite

\* the transform is applied to its own output
RewriteAgain ==
    /\ r_pc = "once"
    /\ r_twice' = Transform(r_fn, r_once)
    /\ r_pc' = "twice"
    /\ UNCHANGED <<r_fn, r_code, r_once, r_close>>
    /\ UNCHANGED notRewrite

MaxPieces == 5

\* the pieces of an argument list: quotes, triple quotes, the backslash,
\* parentheses and a letter
ArgPieces ==
    <<<<"\"", "\"", "\"">>, <<"'", "'", "'">>, <<"\"">>, <<"'">>, <<"\\">>, <<"(">>, <<")">>,
      <<"x">>>>

ArgTexts ==
    {Concat([i \in 1..Len(choice) |-> ArgPieces[choice[i]]]) :
        choice \in UNION {[1..n -> 1..Len(ArgPieces)] : n \in 0..MaxPieces}}

\* add_await_to_cell_calls on one call of q.cells: the for loop finds the
\* match, asks _find_matching_close_paren for its closing parenthesis and
\* wraps the call or leaves it
FindClose ==
    /\ r_pc = "idle"
    /\ \E args \in ArgTexts :
        LET code == QCells \o <<"(">> \o args
        IN  /\ r_code' = code
            /\ r_close' = _find_matching_close_paren(code, MatchQCells(code, 1))
            /\ r_once' = add_await_to_cell_calls(code)
    /\ r_fn' = "_find_matching_close_paren"
    /\ r_pc' = "closed"
    /\ UNCHANGED r_twice
    /\ UNCHANGED notRewrite

NextRewrite == Rewrite \/ RewriteAgain \/ FindClose

(***************************************************************************)
(* Source rewriter: claims.                                                 *)
(***************************************************************************)
\* C10: the await-inserting transform is idempotent: applied to its own
\* output it returns that output unchanged, so a call that already carries
\* its await is neither wrapped nor marked again.
C10_RewriteIdempotent ==
    (r_pc = "twice" /\ r_fn \in {"add_await_to_cell_calls", "attempt_fix_await"}) =>
        r_twice = r_once

Forward == r_pc # "idle" /\ r_fn = "add_await_to_cell_calls"

\* the matches of the reserved call whose parentheses balance, as [start, open, close]
BalancedCalls(code) ==
    LET matches == FindIter(code, 1)
    IN  {[start |-> matches[k].start, open |-> matches[k].open,
          close |-> _find_matching_close_paren(code, matches[k].open)] :
            k \in {j \in 1..Len(matches) :
                      _find_matching_close_paren(code, matches[j].open) # 0}}

\* a reserved call with balanced parentheses has a call among its arguments
HasNestedCall(code) ==
    \E call \in BalancedCalls(code) :
        \E i \in (call.open + 1)..(call.close - 1) : code[i] = "("

RECURSIVE IsSubsequence(_, _)
\* the characters of a appear in b, in the order of a
IsSubsequence(a, b) ==
    IF a = <<>> THEN TRUE
    ELSE IF b = <<>> THEN FALSE
    ELSE IF a[1] = b[1] THEN IsSubsequence(Tail(a), Tail(b))
    ELSE IsSubsequence(a, Tail(b))

RECURSIVE Occurrences(_, _, _)
\* how many indices >= i of code start with word
Occurrences(code, word, i) ==
    IF i > Len(code) THEN 0
    ELSE (IF StartsAt(code, i, word) THEN 1 ELSE 0) + Occurrences(code, word, i + 1)

OpenAwait == <<"(">> \o Await

\* C11: when a reserved call has another call as an argument, the output is
\* the snippet with nothing but wrappers added: every character of the
\* snippet appears once and in order, and the output is longer by exactly
\* the eight characters "(await " and ")" of every wrapper it gained.
C11_NestedCallsWrappedOnce ==
    (Forward /\ HasNestedCall(r_code)) =>
        /\ IsSubsequence(r_code, r_once)
        /\ Len(r_once) = Len(r_code)
              + 8 * (Occurrences(r_once, OpenAwait, 1) - Occurrences(r_code, OpenAwait, 1))

RECURSIVE ExpectedForward(_, _)
\* the snippet from index i on with every balanced reserved call replaced
\* by "(await q.cells(" args "))", args and all other text verbatim
ExpectedForward(code, i) ==
    IF i > Len(code) THEN <<>>
    ELSE LET open == MatchQCells(code, i)
             close == IF open = 0 THEN 0 ELSE _find_matching_close_paren(code, open)
         IN  IF close # 0
             THEN OpenAwait \o QCells \o <<"(">> \o Slice(code, open + 1, close)
                  \o <<")", ")">> \o ExpectedForward(code, close + 1)
             ELSE <<code[i]>> \o ExpectedForward(code, i + 1)

\* C12: every reserved call q.cells(args) with balanced parentheses is
\* replaced by (await q.cells(args)), args verbatim, and the text between
\* the call sites is copied verbatim.
C12_ForwardResult ==
    (Forward /\ BalancedCalls(r_code) # {}) => r_once = ExpectedForward(r_code, 1)

Inverse == r_pc # "idle" /\ r_fn = "utils.attempt_fix_await"

\* an await at index i that directly precedes a complete call to a reserved
\* accessor: the index of the call's name, or 0
AwaitMarker(code, i) ==
    LET hit == {k \in 1..Len(AwaitRules) : AwaitMatch(code, i, AwaitRules[k]).to # 0}
    IN  IF (i = 1 \/ ~IsWordChar(code[i - 1])) /\ hit # {}
        THEN AwaitMatch(code, i, AwaitRules[CHOOSE k \in hit : TRUE]).from
        ELSE 0

\* the snippet calls c( or cell(, the accessors that may be renamed
CallsShortAccessor(code) ==
    \E i \in 1..Len(code) :
        /\ i = 1 \/ ~IsWordChar(code[i - 1])
        /\ StartsAt(code, i, <<"c", "(">>) \/ StartsAt(code, i, <<"c", "e", "l", "l", "(">>)

RECURSIVE ExpectedInverse(_, _)
\* the snippet from index i on without the awaits that directly precede a
\* call to a reserved accessor, everything else verbatim
ExpectedInverse(code, i) ==
    IF i > Len(code) THEN <<>>
    ELSE IF AwaitMarker(code, i) # 0 THEN ExpectedInverse(code, AwaitMarker(code, i))
    ELSE <<code[i]>> \o ExpectedInverse(code, i + 1)

\* C13: the inverse transform removes every await that directly precedes a
\* call to a reserved accessor, keeps every other await, and changes
\* nothing else (snippets that call c( or cell(, which may be renamed to
\* cells(, are left to the renaming rule).
C13_InverseRewrite ==
    (Inverse /\ ~CallsShortAccessor(r_code)) => r_once = ExpectedInverse(r_code, 1)

\* the indices at which the text calls the reserved accessor of transform
\* `fn`: the accessor's name starts there, as a whole identifier, and its
\* opening bracket follows
ReservedCalls(fn, code) ==
    {i \in 1..Len(code) :
        /\ i = 1 \/ ~IsWordChar(code[i - 1])
        /\ IF fn = "add_await_to_cell_calls"
           THEN /\ StartsAt(code, i, <<"q", ".", "c", "e", "l", "l", "s">>)
                /\ \E j \in (i + 7)..Len(code) :
                       /\ code[j] = "("
                       /\ \A k \in (i + 7)..(j - 1) : code[k] \in {" ", "\n", "\t"}
           ELSE \E n \in 1..Len(AccessorNames) : StartsAt(code, i, AccessorNames[n])}

\* C21: the forward rewriter changes text only at calls of the reserved
\* accessor: a snippet that holds no such call is returned unchanged; a call
\* whose callee is a longer identifier that ends in the reserved name is no
\* such call.
C21_OnlyCallsRewritten ==
    (r_pc # "idle" /\ r_fn \in {"add_await_to_cell_calls", "attempt_fix_await"}
        /\ ReservedCalls(r_fn, r_code) = {}) =>
        r_once = r_code

RECURSIVE LiteralEnd(_, _, _)
\* the index after the string literal whose opening delimiter `delim` (one
\* quote or three) ends before index i, as Python reads it: a backslash
\* takes the next character with it, in a triple-quoted literal too;
\* Len(code) + 1 if the literal is not closed
LiteralEnd(code, i, delim) ==
    IF i > Len(code) THEN Len(code) + 1
    ELSE IF code[i] = "\\" THEN LiteralEnd(code, i + 2, delim)
    ELSE IF StartsAt(code, i, delim) THEN i + Len(delim)
    ELSE LiteralEnd(code, i + 1, delim)

RECURSIVE ClosingParen(_, _, _)
\* the index of the ")" that brings the depth to 0, counting parentheses
\* outside string literals only, from index i on; 0 if there is none
ClosingParen(code, i, depth) ==
    IF i > Len(code) THEN 0
    ELSE LET c == code[i]
         IN  IF c \in {"\"", "'"}
             THEN IF StartsAt(code, i, <<c, c, c>>)
                  THEN ClosingParen(code, LiteralEnd(code, i + 3, <<c, c, c>>), depth)
                  ELSE ClosingParen(code, LiteralEnd(code, i + 1, <<c>>), depth)
             ELSE IF c = "(" THEN ClosingParen(code, i + 1, depth + 1)
             ELSE IF c = ")" THEN
                  IF depth = 1 THEN i ELSE ClosingParen(code, i + 1, depth - 1)
             ELSE ClosingParen(code, i + 1, depth)

\* C22: _find_matching_close_paren returns the index of the ")" that closes
\* the "(" it is given, counting nesting outside string literals only:
\* parentheses inside single-quoted, double-quoted and triple-quoted
\* literals, backslash escapes honoured, do not change the depth; where no
\* closing ")" exists it returns -1 (0 here) and add_await_to_cell_calls
\* leaves the call as it is.
C22_MatchingParen ==
    (r_pc = "closed") =>
        /\ r_close = ClosingParen(r_code, 9, 1)
        /\ ClosingParen(r_code, 9, 1) = 0 => r_once = r_code

(***************************************************************************)
(* Code trace: get_user_frames and get_return_line of code_trace.py applied *)
(* to call stacks and snippet texts of bounded length.  A frame of a stack  *)
(* carries its position, counted from the outermost frame, as its lineno.   *)
(***************************************************************************)
MaxFrames == 5      \* a call stack has at most MaxFrames frames
MaxChars == 5       \* a snippet text has at most MaxChars characters

\* the frames of the stacks: the host's eval_code_async, another frame of
\* pyodide, a frame of "<exec>" code (the snippet, run_python), a function
\* of the snippet that is named eval_code_async, and a library frame
FrameKinds == {"eval_code_async", "run_async", "exec", "exec_eval", "lib"}

FrameOf(kind, position) ==
    CASE kind = "eval_code_async" ->
            FrameInfo("/lib/python311.zip/_pyodide/_base.py", "eval_code_async", position)
      [] kind = "run_async" ->
            FrameInfo("/lib/python311.zip/_pyodide/_base.py", "run_async", position)
      [] kind = "exec" -> UserFrame("<module>", position)
      [] kind = "exec_eval" -> UserFrame("eval_code_async", position)
      [] OTHER -> LibFrame("show", position)

\* inspect.stack(): innermost first
StackOf(kinds) == Reverse([i \in 1..Len(kinds) |-> FrameOf(kinds[i], i)])

Stacks == {StackOf(kinds) : kinds \in UNION {[1..n -> FrameKinds] : n \in 0..MaxFrames}}

\* the characters of the snippet texts: the backslash and the n spell the
\* newline escape of a string literal
CodeChars == {"x", " ", "\n", "\t", "\\", "n"}

CodeTexts == UNION {[1..n -> CodeChars] : n \in 0..MaxChars}

InitTrace ==
    /\ t_pc = "idle"
    /\ t_stack = <<>>
    /\ t_frames = [none |-> FALSE, frames |-> <<>>]
    /\ t_code = <<>>
    /\ t_line = UnknownLine

UserFrames ==
    /\ t_pc = "idle"
    /\ \E stack \in Stacks :
        /\ t_stack' = stack
        /\ t_frames' = get_user_frames(stack)
    /\ t_pc' = "frames"
    /\ UNCHANGED <<t_code, t_line>>
    /\ UNCHANGED notTrace

ReturnLine ==
    /\ t_pc = "idle"
    /\ \E code \in CodeTexts :
        /\ t_code' = code
        /\ t_line' = get_return_line(code)
    /\ t_pc' = "line"
    /\ UNCHANGED <<t_stack, t_frames>>
    /\ UNCHANGED notTrace

NextTrace == UserFrames \/ ReturnLine

(***************************************************************************)
(* Code trace: claims (checked under SpecTrace).                            *)
(***************************************************************************)
\* the positions, counted from the outermost frame, of the run of "<exec>"
\* frames that starts at the first "<exec>" frame inside the outermost
\* eval_code_async frame of pyodide, and goes on while the frames are "<exec>"
SnippetRun(s) ==
    LET hosts == {i \in 1..Len(s) : s[i] = FrameOf("eval_code_async", i)}
        execIn == {i \in 1..Len(s) : s[i].filename = "<exec>" /\ \E h \in hosts : h < i}
    IN  IF execIn = {} THEN {}
        ELSE LET a == CHOOSE i \in execIn : \A j \in execIn : i <= j
             IN  {j \in a..Len(s) : \A k \in a..j : s[k].filename = "<exec>"}

\* C19: get_user_frames returns, innermost first, exactly the maximal
\* contiguous run of "<exec>" frames directly inside the host's
\* eval_code_async frame: "<exec>" frames outside that frame and "<exec>"
\* frames separated from the run by another frame are left out.
C19_UserFrames ==
    t_pc = "frames" =>
        LET s == Reverse(t_stack)
            got == t_frames.frames
        IN  /\ ~t_frames.none
            /\ {got[i].lineno : i \in 1..Len(got)} = SnippetRun(s)
            /\ \A i \in 1..Len(got) : got[i] = s[got[i].lineno]
            /\ \A i, j \in 1..Len(got) : i < j => got[i].lineno > got[j].lineno

\* run_python ("<exec>") called eval_code_async, the snippet called a library
\* that called back into the snippet: only the snippet's first frame is returned
C19_Witness ==
    /\ t_pc = "frames"
    /\ t_stack = StackOf(<<"exec", "eval_code_async", "exec", "lib", "exec">>)
    /\ t_frames.frames = <<UserFrame("<module>", 3)>>

\* C20: get_return_line returns the 1-based number of the last line left
\* after stripping trailing white space: one more than the newlines before
\* the last character that is not white space; trailing blank lines do not
\* raise it, the two characters of a newline escape are not counted, and it
\* is at least 1.
C20_ReturnLine ==
    t_pc = "line" =>
        LET inked == {i \in 1..Len(t_code) : t_code[i] \notin {" ", "\n", "\t"}}
            last == IF inked = {} THEN 0 ELSE CHOOSE i \in inked : \A j \in inked : j <= i
        IN  /\ t_line.known
            /\ t_line.n = 1 + Cardinality({i \in 1..last : t_code[i] = "\n"})
            /\ t_line.n >= 1

\* x, a line that holds a newline escape, and a trailing newline: line 2
C20_Witness ==
    /\ t_pc = "line"
    /\ t_code = <<"x", "\n", "\\", "n", "\n">>
    /\ t_line = Line(2)

(***************************************************************************)
(* Specifications: one per component; the other components stay as         *)
(* constructed.                                                            *)
(***************************************************************************)
InitAll == InitCodec /\ InitShape /\ InitFetch /\ InitEval /\ InitRewrite /\ InitTrace

SpecCodec == InitAll /\ [][NextCodec]_vars

SpecShape == InitAll /\ [][NextShape]_vars

SpecFetch == InitAll /\ [][NextFetch]_vars

SpecEval == InitAll /\ [][NextEval]_vars

SpecRewrite == InitAll /\ [][NextRewrite]_vars

SpecTrace == InitAll /\ [][NextTrace]_vars

====
